---------------------------- MODULE Spec2Model ----------------------------
(***************************************************************************)
(* APSchedule: JobHandler / JobRegistry (apschedule/job_handler.py) and    *)
(* SchedulerManager (apschedule/scheduler_manager.py), a facade over an    *)
(* APScheduler 3.10.4 scheduler (setup.py pins the version) with a         *)
(* MemoryJobStore and a ThreadPoolExecutor(max_workers=10).                *)
(*                                                                         *)
(* Calls of JobHandler.execute and JobHandler.reset_stats are modelled     *)
(* statement by statement: each call in progress is one record of the bag  *)
(* `calls`; the handler takes no lock, so the statements of calls made by  *)
(* different threads interleave freely, and `x += 1` is a load followed by *)
(* a store.                                                                *)
(*                                                                         *)
(* Optional values: None is <<>> and a present value v is <<v>>.           *)
(***************************************************************************)
EXTENDS Integers, Sequences, FiniteSets, Bags, TLC

VARIABLES
    \* ---- JobHandler fields (job_handler.py:75-89)
    execution_count,
    error_count,
    last_execution_time,
    last_error,
    \* ---- threads inside JobHandler.execute / reset_stats
    calls,          \* bag of call records, one per call in progress or just returned
    now,            \* the wall clock read by datetime.now()
    \* ---- SchedulerManager fields (scheduler_manager.py:84-105)
    scheduler_type, \* "blocking" | "background"
    scheduler,      \* self._scheduler: None, or the scheduler object created
    is_running,     \* self._is_running
    \* ---- the APScheduler scheduler, its MemoryJobStore and its executor
    state,          \* scheduler.state: "STOPPED" | "RUNNING"
    pending_jobs,   \* scheduler._pending_jobs: sequence of [job, replace_existing]
    store,          \* the job store: job id -> job
    instances,      \* executor._instances: job id -> submitted runs not yet finished
    pool_shutdown,  \* the executor's thread pool has been shut down
    blocked,        \* "none" | "start": a start() call is inside the blocking
                    \* scheduler's main loop | "stop": a stop(wait=True) call is
                    \* waiting for the running jobs
    skipped,        \* the job ids the last pass of the main loop did not submit
                    \* (its "maximum number of running instances reached" warnings)
    ret,            \* outcome of the manager call made by the last step, if any
    \* ---- JobRegistry, the JobHandler objects of its client, and the
    \* ---- dictionaries the client got back (job_handler.py:235-335)
    objs,           \* the JobHandler objects: object -> its attributes
    dicts,          \* the dict objects that map job ids to handlers: the
                    \* registry's self._handlers and the one the client holds
    held,           \* the client's reference to the dict get_all_handlers
                    \* returned to it (None: it holds none)
    snap,           \* the dict JobHandler.get_stats returned to the client
    probe,          \* the interval trigger a client built and the fire time
                    \* it asked the trigger for
    \* ---- ConfigLoader (config_loader.py:108-193)
    cfg,            \* the last parse_jobs call: its config and what it returned
    \* ---- decorators (decorators.py:43-132)
    global_scheduler,   \* the module's _global_scheduler
    pending2,       \* the pending jobs of a second SchedulerManager, which is
                    \* never started
    deco,           \* the last call of a decorator or of a decorated function
    decorated,      \* (history) function -> the values _global_scheduler had at
                    \* its decorations
    \* ---- threads inside SchedulerManager.add_job / start
    \* ---- (scheduler_manager.py:162-191, 221-274)
    heap,           \* the scheduler objects _create_scheduler has returned
    threads,        \* thread -> the call it is in, its position and its locals
    \* ---- history variables (not program state)
    nStarted,       \* execute/reset_stats calls started so far
    nDone,          \* execute calls that have completed
    nRaised,        \* execute calls that completed by raising
    nResets,        \* reset_stats calls started so far
    added,          \* ids of the jobs added and not removed since (nor dropped
                    \* by the store's shutdown), in the order of insertion
    nOps,           \* calls of the manager's methods made so far (SpecJobs)
    nAdds,          \* add_job calls made so far
    nAuto,          \* job ids generated so far
    nRuns           \* runs submitted to the executor so far

hvars == <<execution_count, error_count, last_execution_time, last_error>>
xvars == <<cfg, global_scheduler, pending2, deco, decorated, heap, threads>>
rvars == <<objs, dicts, held, snap, probe, xvars>>
svars == <<scheduler_type, scheduler, is_running, state, pending_jobs, store,
           instances, pool_shutdown, blocked, skipped, added, nAdds, nAuto, nRuns>>
vars == <<execution_count, error_count, last_execution_time, last_error,
          calls, now, nStarted, nDone, nRaised, nResets,
          scheduler_type, scheduler, is_running, state, pending_jobs, store,
          instances, pool_shutdown, blocked, skipped, ret, added, nOps, nAdds, nAuto,
          nRuns, objs, dicts, held, snap, probe,
          cfg, global_scheduler, pending2, deco, decorated, heap, threads>>

---------------------------------------------------------------------------
\* Bounds of the model.
MaxCalls == 3       \* calls of execute / reset_stats started in one behaviour
MaxThreads == 2     \* threads calling into the handler at the same time
MaxTime == 1        \* clock ticks

None == <<>>
Some(v) == <<v>>

\* Values the wrapped callable may return, and exceptions it may raise.  The
\* exceptions are instances of Exception, which is what `except Exception`
\* catches; KeyboardInterrupt / SystemExit are not modelled.
Results == {"r1", "r2"}
Excs == {[type |-> "ValueError", msg |-> "m1"], [type |-> "RuntimeError", msg |-> "m2"]}
NoExc == [type |-> "none", msg |-> ""]
NoOut == [kind |-> "none", val |-> "", exc |-> NoExc]

\* str(e) of an exception built as ExcType("msg")
Str(e) == e.msg

\* The handler's statistics as one value.
Stats == [ec |-> execution_count, er |-> error_count,
          let |-> last_execution_time, le |-> last_error]
ZeroStats == [ec |-> 0, er |-> 0, let |-> None, le |-> None]

---------------------------------------------------------------------------
\* Bag helpers.
One(r) == SetToBag({r})
Active(B) == {r \in BagToSet(B) : r.pc # "done"}

\* The number of copies bag B holds of the records in set S.
RECURSIVE CopiesOf(_, _)
CopiesOf(S, B) ==
    IF S = {} THEN 0
    ELSE LET r == CHOOSE x \in S : TRUE IN CopiesIn(r, B) + CopiesOf(S \ {r}, B)

\* A call that another thread's step has overlapped: its snapshot of the
\* statistics at entry (history, used only for calls that ran alone) is dropped.
Overlapped(r) == [r EXCEPT !.overlap = TRUE, !.pre = ZeroStats]

\* Every record of bag B marked as overlapped by another thread's step.
MarkOverlap(B) ==
    LET img == {Overlapped(r) : r \in BagToSet(B)}
    IN  IF img = {} THEN EmptyBag
        ELSE [x \in img |-> CopiesOf({r \in BagToSet(B) : Overlapped(r) = x}, B)]

\* Thread of record r takes a step to record r2; every other call in the bag has
\* now been overlapped by a step of another thread.
Step(r, r2) == calls' = MarkOverlap(calls (-) One(r)) (+) One(r2)

\* The record of a call that begins.
Frame(op, job, first) ==
    [op |-> op, job |-> job, pc |-> first,
     tmp |-> 0,            \* the value loaded by the `+= 1` in progress
     result |-> None,      \* `result`: what the callable returned (136)
     exc |-> NoExc,        \* `e`: what the callable raised (144)
     out |-> NoOut,        \* what the call handed back to its caller
     todo |-> <<>>,        \* run_job: the run times still to be served
     \* history of this call:
     pre |-> Stats,        \* the statistics when the call began
     overlap |-> FALSE,    \* another thread took a step during the call
     incs |-> 0,           \* stores to execution_count made by the call
     errincs |-> 0,        \* stores to error_count made by the call
     stamped |-> FALSE]    \* the call has set last_execution_time

NewCall(op, job, first) ==
    IF Active(calls) = {} THEN Frame(op, job, first)
    ELSE Overlapped(Frame(op, job, first))

---------------------------------------------------------------------------
\* JobHandler.__init__ (the statistics start at zero / None).
HandlerInit ==
    /\ execution_count = 0
    /\ error_count = 0
    /\ last_execution_time = None
    /\ last_error = None

\* ---- JobHandler.execute, statement by statement -------------------------

\* A thread calls execute(): it enters the try block and logs (114-117).
StartExecute(job) ==
    /\ nStarted < MaxCalls
    /\ BagCardinality(calls) < MaxThreads
    /\ calls' = MarkOverlap(calls) (+) One(NewCall("execute", job, "L121_load"))
    /\ nStarted' = nStarted + 1
    /\ UNCHANGED <<hvars, now, nDone, nRaised, nResets>>

\* self.execution_count += 1, first half: the load of the attribute.
L121_load(r) ==
    /\ r.pc = "L121_load"
    /\ Step(r, [r EXCEPT !.pc = "L121_store", !.tmp = execution_count])
    /\ UNCHANGED <<hvars, now, nStarted, nDone, nRaised, nResets>>

\* (mutant) the store is lost: the counter keeps its value.
L121_store_lost(r) ==
    /\ r.pc = "L121_store"
    /\ Step(r, [r EXCEPT !.pc = "L125"])
    /\ UNCHANGED <<hvars, now, nStarted, nDone, nRaised, nResets>>

\* self.execution_count += 1, second half: the store of (loaded value + 1).
L121_store(r) ==
    /\ r.pc = "L121_store"
    /\ execution_count' = r.tmp + 1
    /\ Step(r, [r EXCEPT !.pc = "L125", !.incs = @ + 1])
    /\ UNCHANGED <<error_count, last_execution_time, last_error,
                   now, nStarted, nDone, nRaised, nResets>>

\* self.last_execution_time = datetime.now()
L125(r) ==
    /\ r.pc = "L125"
    /\ last_execution_time' = Some(now)
    /\ Step(r, [r EXCEPT !.pc = "L136", !.stamped = TRUE])
    /\ UNCHANGED <<execution_count, error_count, last_error,
                   now, nStarted, nDone, nRaised, nResets>>

\* (mutant) execute drops the callable's result and returns None.
ReturnOut_none(v) == [kind |-> "return", val |-> "None", exc |-> NoExc]

\* What execute hands back when the callable returned v: `return result` (142).
ReturnOut(v) == [kind |-> "return", val |-> v, exc |-> NoExc]

\* result = self.func(*args, **merged_kwargs) returns v; log; return result.
L136_returns(r, v) ==
    /\ r.pc = "L136"
    /\ Step(r, [r EXCEPT !.pc = "done", !.result = Some(v), !.out = ReturnOut(v)])
    /\ nDone' = nDone + 1
    /\ UNCHANGED <<hvars, now, nStarted, nRaised, nResets>>

\* self.func(...) raises e: control moves to `except Exception as e` (144).
L136_raises(r, e) ==
    /\ r.pc = "L136"
    /\ Step(r, [r EXCEPT !.pc = "L149_load", !.exc = e])
    /\ UNCHANGED <<hvars, now, nStarted, nDone, nRaised, nResets>>

\* self.error_count += 1, the load.
L149_load(r) ==
    /\ r.pc = "L149_load"
    /\ Step(r, [r EXCEPT !.pc = "L149_store", !.tmp = error_count])
    /\ UNCHANGED <<hvars, now, nStarted, nDone, nRaised, nResets>>

\* self.error_count += 1, the store.
L149_store(r) ==
    /\ r.pc = "L149_store"
    /\ error_count' = r.tmp + 1
    /\ Step(r, [r EXCEPT !.pc = "L153", !.errincs = @ + 1])
    /\ UNCHANGED <<execution_count, last_execution_time, last_error,
                   now, nStarted, nDone, nRaised, nResets>>

\* (mutant) execute raises a new exception wrapping the message.
RaiseOut_wrapped(e) ==
    [kind |-> "raise", val |-> "", exc |-> [type |-> "Exception", msg |-> e.msg]]

\* What execute hands back when the callable raised e: the bare `raise` (161)
\* re-raises the exception being handled.
RaiseOut(e) == [kind |-> "raise", val |-> "", exc |-> e]

\* self.last_error = str(e); logger.error(...); raise
L153(r) ==
    /\ r.pc = "L153"
    /\ last_error' = Some(Str(r.exc))
    /\ Step(r, [r EXCEPT !.pc = "done", !.out = RaiseOut(r.exc)])
    /\ nDone' = nDone + 1
    /\ nRaised' = nRaised + 1
    /\ UNCHANGED <<execution_count, error_count, last_execution_time,
                   now, nStarted, nResets>>

\* ---- JobHandler.reset_stats, statement by statement ---------------------

StartReset ==
    /\ nStarted < MaxCalls
    /\ BagCardinality(calls) < MaxThreads
    /\ calls' = MarkOverlap(calls) (+) One(NewCall("reset_stats", "none", "L212"))
    /\ nStarted' = nStarted + 1
    /\ nResets' = nResets + 1
    /\ UNCHANGED <<hvars, now, nDone, nRaised>>

\* self.execution_count = 0
L212(r) ==
    /\ r.pc = "L212"
    /\ execution_count' = 0
    /\ Step(r, [r EXCEPT !.pc = "L215"])
    /\ UNCHANGED <<error_count, last_execution_time, last_error,
                   now, nStarted, nDone, nRaised, nResets>>

\* self.error_count = 0
L215(r) ==
    /\ r.pc = "L215"
    /\ error_count' = 0
    /\ Step(r, [r EXCEPT !.pc = "L218"])
    /\ UNCHANGED <<execution_count, last_execution_time, last_error,
                   now, nStarted, nDone, nRaised, nResets>>

\* (mutant) reset_stats forgets to clear last_execution_time.
L218_skip(r) ==
    /\ r.pc = "L218"
    /\ Step(r, [r EXCEPT !.pc = "L221"])
    /\ UNCHANGED <<hvars, now, nStarted, nDone, nRaised, nResets>>

\* self.last_execution_time = None
L218(r) ==
    /\ r.pc = "L218"
    /\ last_execution_time' = None
    /\ Step(r, [r EXCEPT !.pc = "L221"])
    /\ UNCHANGED <<execution_count, error_count, last_error,
                   now, nStarted, nDone, nRaised, nResets>>

\* self.last_error = None; logger.info(...); return
L221(r) ==
    /\ r.pc = "L221"
    /\ last_error' = None
    /\ Step(r, [r EXCEPT !.pc = "done"])
    /\ UNCHANGED <<execution_count, error_count, last_execution_time,
                   now, nStarted, nDone, nRaised, nResets>>

\* The caller of a finished call takes its result (or the exception) and goes on.
Collect(r) ==
    /\ r.pc = "done"
    /\ r.job = "none"
    /\ calls' = calls (-) One(r)
    /\ UNCHANGED <<hvars, now, nStarted, nDone, nRaised, nResets>>

\* The wall clock advances.
Tick ==
    /\ now < MaxTime
    /\ now' = now + 1
    /\ UNCHANGED <<hvars, calls, nStarted, nDone, nRaised, nResets>>

\* One statement of a call in progress.
HandlerStep ==
    \E r \in BagToSet(calls) :
        \/ L121_load(r)
        \/ L121_store(r)
        \/ L125(r)
        \/ \E v \in Results : L136_returns(r, v)
        \/ \E e \in Excs : L136_raises(r, e)
        \/ L149_load(r)
        \/ L149_store(r)
        \/ L153(r)
        \/ L212(r)
        \/ L215(r)
        \/ L218(r)
        \/ L221(r)

---------------------------------------------------------------------------
\* SchedulerManager over an APScheduler 3.10.4 scheduler.  The library is not
\* part of the repository; what the manager's calls into it do is modelled
\* here from the library's behaviour, at the place the manager calls it.

MaxAdds == 2                \* Spec: add_job calls in one behaviour
MaxClock == 2               \* Spec: clock ticks
MaxRuns == 2                \* Spec: runs submitted to the executor
JobsMaxOps == 4             \* SpecJobs: calls of the manager's methods
JobsMaxClock == 2           \* SpecJobs: clock ticks
JobsMaxRuns == 1            \* SpecJobs: runs submitted to the executor
RunMaxClock == 4            \* SpecRun: clock ticks
RunMaxRuns == 6             \* SpecRun: runs submitted to the executor
DefaultMaxInstances == 3    \* job_defaults['max_instances']
MaxWorkers == 10            \* ThreadPoolExecutor(max_workers=10)
MisfireGraceTime == 1       \* job_defaults leave APScheduler's misfire_grace_time
DefaultCoalesce == FALSE    \* job_defaults['coalesce']
CoMaxClock == 3             \* SpecCoalesce: clock ticks
CoMaxRuns == 3              \* SpecCoalesce: runs submitted to the executor
PoolInstances == 8          \* SpecPool: the max_instances given for job "b"
PoolMaxClock == 9           \* SpecPool: clock ticks
PoolMaxRuns == 16           \* SpecPool: runs submitted to the executor

\* Job ids: the ids clients pass, and the ids uuid4().hex yields when the id
\* is None (the n-th generated id is AutoIds[n]).  AllIds lists them in
\* the order Python compares the strings.
Ids == {"a", "b"}
AutoIds == <<"u1">>
AllIds == <<"a", "b", "u1">>
IdSet == {AllIds[i] : i \in 1..Len(AllIds)}
Rank(id) == CHOOSE i \in 1..Len(AllIds) : AllIds[i] = id

\* Interval lengths of the IntervalTrigger objects clients build, in ticks.
Periods == {1, 2}

\* The client program: job "a" runs a wrapper around handler.execute() of a
\* JobHandler whose callable raises on every run; every other job runs a
\* plain function that returns.
FuncOf(id) == IF id = "a" THEN "failing" ELSE "healthy"

\* IntervalTrigger(seconds=p) built at time t: start_date = t + interval, and
\* no end_date.
IntervalTrigger(p, t) == [interval |-> p, start_date |-> t + p, end_date |-> None]

\* IntervalTrigger(seconds=p, end_date=e) built at time t.
IntervalTriggerUntil(p, t, e) == [IntervalTrigger(p, t) EXCEPT !.end_date = Some(e)]

\* ceil(a / b) for a >= 0, b > 0
CeilDiv(a, b) == (a + b - 1) \div b

\* IntervalTrigger.get_next_fire_time(previous_fire_time, now): None once the
\* next fire time would be after the trigger's end_date.
NextFire(trig, prev, t) ==
    LET next_fire_time ==
            IF prev # None THEN prev[1] + trig.interval
            ELSE IF trig.start_date > t THEN trig.start_date
            ELSE trig.start_date
                 + trig.interval * CeilDiv(t - trig.start_date, trig.interval)
    IN  IF trig.end_date = None \/ next_fire_time <= trig.end_date[1]
        THEN Some(next_fire_time)
        ELSE None

\* Job(scheduler, id=..., trigger=..., func=...): max_instances 0 stands for
\* an attribute the Job does not have yet, and has_nrt tells whether the Job
\* has the attribute next_run_time (None is then the value of a paused job).
\* coalesce is the manager's job default unless add_job is given the keyword.
\* name is the callable's name unless add_job is given a name.
NewJob(id, trig) ==
    [id |-> id, trigger |-> trig, func |-> FuncOf(id), name |-> FuncOf(id),
     max_instances |-> 0, next_run_time |-> None, has_nrt |-> FALSE,
     coalesce |-> DefaultCoalesce]

\* Job._get_run_times(now): the fire times from next_run_time up to now.
RECURSIVE RunTimesFrom(_, _, _)
RunTimesFrom(trig, nrt, t) ==
    IF nrt = None \/ nrt[1] > t THEN <<>>
    ELSE <<nrt[1]>> \o RunTimesFrom(trig, NextFire(trig, nrt, t), t)
RunTimes(job, t) == RunTimesFrom(job.trigger, job.next_run_time, t)

\* ---- MemoryJobStore ------------------------------------------------------
EmptyStore == [id \in {} |-> 0]
StoreRemove(st, id) == [i \in DOMAIN st \ {id} |-> st[i]]
StorePut(st, job) == [i \in DOMAIN st \cup {job.id} |-> IF i = job.id THEN job ELSE st[i]]

\* MemoryJobStore keeps its list sorted by (next_run_time, id), jobs without a
\* next_run_time last: x comes before y.
Before(x, y) ==
    LET tx == x.next_run_time
        ty == y.next_run_time
    IN  IF tx = ty THEN Rank(x.id) < Rank(y.id)
        ELSE IF tx = None THEN FALSE
        ELSE IF ty = None THEN TRUE
        ELSE tx[1] < ty[1]

\* MemoryJobStore.get_all_jobs(): the jobs in the order of the list.
RECURSIVE SortedJobs(_)
SortedJobs(st) ==
    IF DOMAIN st = {} THEN <<>>
    ELSE LET first == CHOOSE i \in DOMAIN st :
                          \A k \in DOMAIN st \ {i} : Before(st[i], st[k])
         IN  <<st[first]>> \o SortedJobs(StoreRemove(st, first))

\* ---- BaseScheduler -------------------------------------------------------

\* _real_add_job: fill in the job defaults, and the first run time `if not
\* hasattr(job, 'next_run_time')`.
RealJob(job, t) ==
    [job EXCEPT !.max_instances = IF @ = 0 THEN DefaultMaxInstances ELSE @,
                !.next_run_time = IF job.has_nrt THEN @
                                  ELSE NextFire(job.trigger, None, t),
                !.has_nrt = TRUE]

\* _real_add_job: store.add_job raises ConflictingIdError for an id the store
\* holds, unless replace_existing, and then store.update_job replaces the job.
RealAdd(st, job, replace_existing, t) ==
    IF job.id \in DOMAIN st /\ ~replace_existing
    THEN [ok |-> FALSE, store |-> st]
    ELSE [ok |-> TRUE, store |-> StorePut(st, RealJob(job, t))]

\* BaseScheduler.start: the pending jobs are really added, in order, until one
\* of them raises.
RECURSIVE AddPending(_, _, _)
AddPending(st, pend, t) ==
    IF pend = <<>> THEN [ok |-> TRUE, store |-> st]
    ELSE LET a == RealAdd(st, Head(pend).job, Head(pend).replace_existing, t)
         IN  IF a.ok THEN AddPending(a.store, Tail(pend), t) ELSE a

\* scheduler.get_jobs(): the pending jobs while STOPPED, else the store's.
SchedulerGetJobs ==
    IF state = "STOPPED"
    THEN [i \in 1..Len(pending_jobs) |-> pending_jobs[i].job]
    ELSE SortedJobs(store)

\* scheduler.get_job(id): the first pending job with the id while STOPPED,
\* else the store's job; None when there is none.
SchedulerGetJob(id) ==
    IF state = "STOPPED"
    THEN LET hits == {i \in 1..Len(pending_jobs) : pending_jobs[i].job.id = id}
         IN  IF hits = {} THEN None
             ELSE Some(pending_jobs[CHOOSE i \in hits : \A k \in hits : i <= k].job)
    ELSE IF id \in DOMAIN store THEN Some(store[id]) ELSE None

\* ---- SchedulerManager ----------------------------------------------------

\* SchedulerManager.get_jobs()
get_jobs == IF scheduler = None THEN <<>> ELSE SchedulerGetJobs

\* SchedulerManager.get_job(job_id)
get_job(id) == IF scheduler = None THEN None ELSE SchedulerGetJob(id)

\* Python values a manager call hands back.
PyNone == [type |-> "NoneType", id |-> ""]
PyStr(x) == [type |-> "str", id |-> x]
PyJob(job) == [type |-> "Job", id |-> job.id]

\* Outcome of a manager call: what it was called with (history) and what it
\* returned or raised.
NoRet == [op |-> "none", kind |-> "none", val |-> PyNone, exc |-> "",
          id |-> "", given |-> FALSE, replace_existing |-> FALSE,
          trigger |-> IntervalTrigger(0, 0), dup |-> None, wait |-> FALSE,
          arg |-> ""]
\* A call that has not returned: it is blocked inside the scheduler.
InCall(op) == [NoRet EXCEPT !.op = op]
Returned(op, v) == [NoRet EXCEPT !.op = op, !.kind = "return", !.val = v]
Raised(op, e) == [NoRet EXCEPT !.op = op, !.kind = "raise", !.exc = e]

\* (mutant) the constructor creates the scheduler.
ManagerInit_eager(type) ==
    /\ scheduler_type = type
    /\ scheduler = Some("scheduler")
    /\ is_running = FALSE
    /\ state = "STOPPED"
    /\ pending_jobs = <<>>
    /\ store = [id \in {} |-> 0]
    /\ instances = [id \in {"a", "b", "u1"} |-> 0]
    /\ pool_shutdown = FALSE
    /\ blocked = "none"
    /\ skipped = {}
    /\ ret = [op |-> "none", kind |-> "none", val |-> [type |-> "NoneType", id |-> ""],
              exc |-> "", id |-> "", given |-> FALSE, replace_existing |-> FALSE,
              trigger |-> [interval |-> 0, start_date |-> 0, end_date |-> <<>>],
              dup |-> <<>>,
              wait |-> FALSE, arg |-> ""]
    /\ added = <<>>
    /\ nOps = 0
    /\ nAdds = 0
    /\ nAuto = 0
    /\ nRuns = 0

\* SchedulerManager.__init__
ManagerInit(type) ==
    /\ scheduler_type = type
    /\ scheduler = None
    /\ is_running = FALSE
    /\ state = "STOPPED"
    /\ pending_jobs = <<>>
    /\ store = EmptyStore
    /\ instances = [id \in IdSet |-> 0]
    /\ pool_shutdown = FALSE
    /\ blocked = "none"
    /\ skipped = {}
    /\ ret = NoRet
    /\ added = <<>>
    /\ nOps = 0
    /\ nAdds = 0
    /\ nAuto = 0
    /\ nRuns = 0

\* What add_job returns: `job_id = self._scheduler.add_job(...)` is the Job
\* object scheduler.add_job returns; `return job_id`.
AddJobValue(job) == PyJob(job)

\* SchedulerManager.add_job(func, trigger, id, name, replace_existing=...):
\* id and name are "None" when they are not given.
add_job_func(func, name, id, trig, replace_existing) ==
    /\ nAdds < MaxAdds
    /\ blocked # "stop"
    /\ id = "None" => nAuto < Len(AutoIds)
    /\ nAuto' = IF id = "None" THEN nAuto + 1 ELSE nAuto
    /\ LET jid == IF id = "None" THEN AutoIds[nAuto + 1] ELSE id
           job == [NewJob(jid, trig) EXCEPT
                      !.func = func,
                      !.name = IF name = "None" THEN func ELSE name]
           call == [NoRet EXCEPT !.op = "add_job", !.id = jid, !.given = (id # "None"),
                                 !.replace_existing = replace_existing,
                                 !.trigger = job.trigger, !.dup = get_job(jid)]
       IN  /\ scheduler' = Some("scheduler")
           /\ IF state = "STOPPED"
              THEN /\ pending_jobs' = Append(pending_jobs,
                          [job |-> job, replace_existing |-> replace_existing])
                   /\ store' = store
                   /\ added' = Append(added, jid)
                   /\ ret' = [call EXCEPT !.kind = "return", !.val = AddJobValue(job)]
              ELSE LET a == RealAdd(store, job, replace_existing, now)
                   IN  /\ store' = a.store
                       /\ pending_jobs' = pending_jobs
                       /\ added' = IF a.ok /\ jid \notin DOMAIN store
                                   THEN Append(added, jid) ELSE added
                       /\ ret' = IF a.ok
                                 THEN [call EXCEPT !.kind = "return",
                                                   !.val = AddJobValue(job)]
                                 ELSE [call EXCEPT !.kind = "raise",
                                                   !.exc = "ConflictingIdError"]
    /\ nAdds' = nAdds + 1
    /\ UNCHANGED <<scheduler_type, is_running, state, instances, pool_shutdown, blocked,
                   skipped, nRuns>>
    /\ UNCHANGED <<hvars, calls, now, nStarted, nDone, nRaised, nResets>>

\* add_job of the callable the client keeps for the id, without a name.
add_job_trigger(id, trig, replace_existing) ==
    add_job_func(FuncOf(IF id = "None" THEN AutoIds[nAuto + 1] ELSE id), "None",
                 id, trig, replace_existing)

\* add_job with an IntervalTrigger(seconds=p) the client has just built.
add_job(id, p, replace_existing) ==
    add_job_trigger(id, IntervalTrigger(p, now), replace_existing)

\* SchedulerManager.start()
start ==
    /\ blocked # "stop"
    /\ IF is_running
       THEN /\ ret' = Returned("start", PyNone)
            /\ UNCHANGED <<scheduler, is_running, state, pending_jobs, store, blocked>>
       ELSE /\ scheduler' = Some("scheduler")
            /\ IF state # "STOPPED"
               THEN /\ ret' = Raised("start", "SchedulerAlreadyRunningError")
                    /\ UNCHANGED <<is_running, state, pending_jobs, store, blocked>>
               ELSE LET a == AddPending(store, pending_jobs, now)
                    IN  /\ store' = a.store
                        /\ IF ~a.ok
                           THEN /\ ret' = Raised("start", "ConflictingIdError")
                                /\ UNCHANGED <<is_running, state, pending_jobs, blocked>>
                           ELSE /\ pending_jobs' = <<>>
                                /\ state' = "RUNNING"
                                /\ IF scheduler_type = "background"
                                   THEN /\ is_running' = TRUE
                                        /\ blocked' = blocked
                                        /\ ret' = Returned("start", PyNone)
                                   ELSE \* BlockingScheduler.start() runs the main
                                        \* loop and does not return
                                        /\ is_running' = is_running
                                        /\ blocked' = "start"
                                        /\ ret' = InCall("start")
    /\ UNCHANGED <<scheduler_type, instances, pool_shutdown, skipped, added,
                   nAdds, nAuto, nRuns>>
    /\ UNCHANGED <<hvars, calls, now, nStarted, nDone, nRaised, nResets>>

\* The runs submitted to the executor and not yet finished.
JobRuns == {r \in BagToSet(calls) : r.job # "none"}

\* SchedulerManager.stop(wait): scheduler.shutdown(wait) sets the state, shuts
\* the pool down (with wait, once the submitted runs have finished) and the
\* MemoryJobStore drops its jobs.
stop(wait) ==
    /\ blocked # "stop"
    /\ IF ~is_running \/ scheduler = None
       THEN /\ ret' = [Returned("stop", PyNone) EXCEPT !.wait = wait]
            /\ UNCHANGED <<is_running, state, store, pool_shutdown, blocked, added>>
       ELSE /\ state' = "STOPPED"
            /\ pool_shutdown' = TRUE
            /\ IF wait /\ JobRuns # {}
               THEN /\ blocked' = "stop"
                    /\ ret' = [InCall("stop") EXCEPT !.wait = wait]
                    /\ UNCHANGED <<is_running, store, added>>
               ELSE /\ store' = EmptyStore
                    /\ added' = <<>>
                    /\ is_running' = FALSE
                    /\ blocked' = blocked
                    /\ ret' = [Returned("stop", PyNone) EXCEPT !.wait = wait]
    /\ UNCHANGED <<scheduler_type, scheduler, pending_jobs, instances, skipped,
                   nAdds, nAuto, nRuns>>
    /\ UNCHANGED <<hvars, calls, now, nStarted, nDone, nRaised, nResets>>

\* stop(wait=True) returns once the submitted runs have finished.
stop_returns ==
    /\ blocked = "stop"
    /\ JobRuns = {}
    /\ store' = EmptyStore
    /\ added' = <<>>
    /\ is_running' = FALSE
    /\ blocked' = "none"
    /\ ret' = [Returned("stop", PyNone) EXCEPT !.wait = TRUE]
    /\ UNCHANGED <<scheduler_type, scheduler, state, pending_jobs, instances,
                   pool_shutdown, skipped, nAdds, nAuto, nRuns>>
    /\ UNCHANGED <<hvars, calls, now, nStarted, nDone, nRaised, nResets>>

\* The position of the first pending job with the id (0: none).
FirstPending(id) ==
    LET hits == {i \in 1..Len(pending_jobs) : pending_jobs[i].job.id = id}
    IN  IF hits = {} THEN 0 ELSE CHOOSE i \in hits : \A k \in hits : i <= k

\* Sequence q without its element at position i.
Without(q, i) == [k \in 1..(Len(q) - 1) |-> IF k < i THEN q[k] ELSE q[k + 1]]

\* Sequence q without the first occurrence of x.
WithoutFirst(q, x) ==
    LET hits == {i \in 1..Len(q) : q[i] = x}
    IN  IF hits = {} THEN q
        ELSE Without(q, CHOOSE i \in hits : \A k \in hits : i <= k)

\* What the manager's job operations leave alone.
JobOpFrame ==
    /\ UNCHANGED <<scheduler_type, scheduler, is_running, state, instances,
                   pool_shutdown, blocked, skipped, nAdds, nAuto, nRuns>>
    /\ UNCHANGED <<hvars, calls, now, nStarted, nDone, nRaised, nResets>>

\* (mutant) the scheduler's JobLookupError reaches the caller.
JobOpRet_raises(op, id) ==
    IF scheduler # None /\ get_job(id) = None
    THEN [Raised(op, "JobLookupError") EXCEPT !.id = id]
    ELSE [Returned(op, PyNone) EXCEPT !.id = id, !.dup = get_job(id)]

\* The outcome of a job operation: it returns None, also when the scheduler
\* raised JobLookupError (`except Exception as e: logger.error(...)`).
JobOpRet(op, id) ==
    [Returned(op, PyNone) EXCEPT !.id = id, !.dup = get_job(id)]

\* The job operation removes the job, if the scheduler has it.
RemoveFound(id) ==
    IF state = "STOPPED"
    THEN /\ pending_jobs' = IF FirstPending(id) = 0 THEN pending_jobs
                             ELSE Without(pending_jobs, FirstPending(id))
         /\ added' = IF FirstPending(id) = 0 THEN added ELSE WithoutFirst(added, id)
         /\ store' = store
    ELSE /\ store' = IF id \in DOMAIN store THEN StoreRemove(store, id) ELSE store
         /\ added' = IF id \in DOMAIN store THEN WithoutFirst(added, id) ELSE added
         /\ pending_jobs' = pending_jobs

\* SchedulerManager.remove_job(job_id): scheduler.remove_job deletes the first
\* pending job with the id while STOPPED, else the store's job.
remove_job(id) ==
    /\ blocked # "stop"
    /\ ret' = JobOpRet("remove_job", id)
    /\ IF scheduler = None
       THEN UNCHANGED <<pending_jobs, store, added>>
       ELSE RemoveFound(id)
    /\ JobOpFrame

\* scheduler.modify_job(job_id, next_run_time=nrt): the job _lookup_job finds
\* (the first pending one while STOPPED) gets the next run time.
ModifyJob(id, nrt) ==
    IF state = "STOPPED"
    THEN /\ pending_jobs' =
                IF FirstPending(id) = 0 THEN pending_jobs
                ELSE [pending_jobs EXCEPT ![FirstPending(id)].job =
                         [@ EXCEPT !.next_run_time = nrt, !.has_nrt = TRUE]]
         /\ store' = store
    ELSE /\ store' = IF id \in DOMAIN store
                      THEN [store EXCEPT ![id].next_run_time = nrt]
                      ELSE store
         /\ pending_jobs' = pending_jobs

\* SchedulerManager.pause_job(job_id): scheduler.pause_job sets the job's
\* next_run_time to None.
pause_job(id) ==
    /\ blocked # "stop"
    /\ ret' = JobOpRet("pause_job", id)
    /\ IF scheduler = None
       THEN UNCHANGED <<pending_jobs, store>>
       ELSE ModifyJob(id, None)
    /\ added' = added
    /\ JobOpFrame

\* (mutant) resume_job puts back the trigger's start date.
ResumeTime_stale(job, t) == Some(job.trigger.start_date)

\* scheduler.resume_job: next_run_time = job.trigger.get_next_fire_time(None, now)
ResumeTime(job, t) == NextFire(job.trigger, None, t)

\* SchedulerManager.resume_job(job_id): scheduler.resume_job sets
\* next_run_time to trigger.get_next_fire_time(None, now); when the trigger
\* has no fire time left it removes the job instead.
resume_job(id) ==
    /\ blocked # "stop"
    /\ ret' = JobOpRet("resume_job", id)
    /\ IF scheduler = None \/ get_job(id) = None
       THEN UNCHANGED <<pending_jobs, store, added>>
       ELSE IF ResumeTime(get_job(id)[1], now) = None
       THEN RemoveFound(id)
       ELSE /\ ModifyJob(id, ResumeTime(get_job(id)[1], now))
            /\ added' = added
    /\ JobOpFrame

\* ---- the executor and the scheduler's main loop --------------------------

\* (mutant) submit_job does not look at the number of running instances.
MayRun_always(n, job) == TRUE

\* BaseExecutor.submit_job: MaxInstancesReachedError unless fewer than
\* job.max_instances runs of the job's id are in flight.
MayRun(n, job) == n < job.max_instances

\* A run handed to the thread pool: run_job(job, run_times), not started yet.
Submitted(job, run_times) ==
    Overlapped([NewCall("run_job", job.id, "queued") EXCEPT !.todo = run_times])

\* The jobs the store reports as due: get_due_jobs(now).
Due == {id \in DOMAIN store :
            /\ store[id].next_run_time # None
            /\ store[id].next_run_time[1] <= now}

\* The next run time _process_jobs gives a due job:
\* trigger.get_next_fire_time(run_times[-1], now).
NextRunTime(job, t) ==
    LET rt == RunTimes(job, t)
    IN  NextFire(job.trigger, Some(rt[Len(rt)]), t)

\* The run times _process_jobs submits for a due job:
\* run_times[-1:] if job.coalesce else run_times
SubmittedRunTimes(job, t) ==
    LET run_times == RunTimes(job, t)
    IN  IF job.coalesce THEN <<run_times[Len(run_times)]>> ELSE run_times

\* The due jobs whose trigger has no fire time left.
Exhausted == {id \in Due : NextRunTime(store[id], now) = None}

\* BaseScheduler._process_jobs, one pass of the main loop: every due job is
\* submitted with its run times (skipped with a warning when max_instances is
\* reached, or with a logged error when the pool was shut down) and gets its
\* next run time, or is removed when its trigger has none left.
_process_jobs(maxRuns) ==
    /\ state = "RUNNING"
    /\ Due # {}
    /\ LET accepted == {id \in Due : ~pool_shutdown /\ MayRun(instances[id], store[id])}
       IN  /\ nRuns + Cardinality(accepted) <= maxRuns
           /\ nRuns' = nRuns + Cardinality(accepted)
           /\ calls' = calls (+) SetToBag({Submitted(store[id],
                                                      SubmittedRunTimes(store[id], now))
                                             : id \in accepted})
           /\ instances' = [id \in IdSet |->
                               IF id \in accepted THEN instances[id] + 1 ELSE instances[id]]
           /\ store' = [id \in DOMAIN store \ Exhausted |->
                           IF id \in Due
                           THEN [store[id] EXCEPT !.next_run_time =
                                                     NextRunTime(store[id], now)]
                           ELSE store[id]]
           /\ added' = SelectSeq(added, LAMBDA id : id \notin Exhausted)
    /\ skipped' = {id \in Due : ~MayRun(instances[id], store[id])}
    /\ ret' = NoRet
    /\ UNCHANGED <<scheduler_type, scheduler, is_running, state, pending_jobs,
                   pool_shutdown, blocked, nAdds, nAuto>>
    /\ UNCHANGED <<hvars, now, nStarted, nDone, nRaised, nResets>>

\* run_job: run times missed by more than misfire_grace_time are skipped.
RECURSIVE SkipMissed(_, _)
SkipMissed(run_times, t) ==
    IF run_times # <<>> /\ t - Head(run_times) > MisfireGraceTime
    THEN SkipMissed(Tail(run_times), t)
    ELSE run_times

\* Pool threads that are running a job.
Busy == BagCardinality([r \in {x \in JobRuns : x.pc # "queued"} |-> calls[r]])

\* (mutant) the pool starts a thread for every run.
WorkerFree_always == TRUE

\* ThreadPoolExecutor(max_workers=10): a queued run starts when fewer than
\* max_workers threads are running one.
WorkerFree == Busy < MaxWorkers

\* run_job on a pool thread: it takes the next run time that is not missed
\* and calls job.func; an exception of the previous call has been caught and
\* logged.  With no run time left the run is over and the executor's
\* callback counts the instance out.
run_job(r) ==
    /\ r.job # "none"
    /\ r.pc \in {"queued", "done"}
    /\ r.pc = "queued" => WorkerFree
    /\ LET rem == SkipMissed(r.todo, now)
           next == Overlapped([NewCall(IF FuncOf(r.job) = "failing"
                                        THEN "execute" ELSE "func",
                                        r.job,
                                        IF FuncOf(r.job) = "failing"
                                        THEN "L121_load" ELSE "func")
                                EXCEPT !.todo = Tail(rem)])
       IN  IF rem = <<>>
           THEN /\ calls' = calls (-) One(r)
                /\ instances' = [instances EXCEPT ![r.job] = @ - 1]
           ELSE /\ calls' = (calls (-) One(r)) (+) One(next)
                /\ instances' = instances
    /\ ret' = NoRet
    /\ UNCHANGED <<scheduler_type, scheduler, is_running, state, pending_jobs, store,
                   pool_shutdown, blocked, skipped, added, nAdds, nAuto, nRuns>>
    /\ UNCHANGED <<hvars, now, nStarted, nDone, nRaised, nResets>>

\* The plain function of a healthy job returns.
func_returns(r) ==
    /\ r.pc = "func"
    /\ calls' = (calls (-) One(r)) (+) One([r EXCEPT !.pc = "done"])
    /\ ret' = NoRet
    /\ UNCHANGED <<svars, hvars, now, nStarted, nDone, nRaised, nResets>>

\* What the callable of the failing job raises on every run.
FailExc == [type |-> "ValueError", msg |-> "m1"]

\* One statement of the handler.execute() call a run of the failing job makes.
ExecFailStep ==
    /\ \E r \in BagToSet(calls) :
          \/ L121_load(r)
          \/ L121_store(r)
          \/ L125(r)
          \/ L136_raises(r, FailExc)
          \/ L149_load(r)
          \/ L149_store(r)
          \/ L153(r)
    /\ ret' = NoRet
    /\ UNCHANGED svars

\* The wall clock advances.
TickClock(maxClock) ==
    /\ now < maxClock
    /\ now' = now + 1
    /\ ret' = NoRet
    /\ UNCHANGED <<svars, hvars, calls, nStarted, nDone, nRaised, nResets>>

---------------------------------------------------------------------------
\* JobRegistry and the JobHandler objects of a client program.  The client
\* is one thread here, so a call of execute / reset_stats is one step: the
\* statements of the call (above) run one after the other.

RegMaxOps == 5              \* SpecRegistry: calls the client makes
RegMaxExec == 1             \* SpecRegistry: execute() calls per handler
SnapMaxOps == 5             \* SpecSnapshot: calls the client makes
SnapMaxExec == 2            \* SpecSnapshot: execute() calls between two resets
SnapMaxClock == 1           \* SpecSnapshot: clock ticks
LifeMaxOps == 4             \* SpecLife: calls the client makes
LifeMaxClock == 2           \* SpecLife: clock ticks
LifeMaxRuns == 1            \* SpecLife: runs submitted to the executor
LifeMaxExec == 1            \* SpecLife: execute() calls per handler

\* The JobHandler objects the client builds: h1 and h2 are two handlers with
\* the same job_id "a", h3 has job_id "b".
Handlers == {"h1", "h2", "h3"}
JobIdOf(h) == IF h = "h3" THEN "b" ELSE "a"

\* JobHandler.__init__(job_id, name, func): the attributes of the new object.
NewHandler(h) ==
    [job_id |-> JobIdOf(h), name |-> h,
     execution_count |-> 0, last_execution_time |-> None,
     error_count |-> 0, last_error |-> None]

\* dict objects that map job ids to handlers.
EmptyDict == [id \in {} |-> ""]
DictSet(d, k, v) == [i \in DOMAIN d \cup {k} |-> IF i = k THEN v ELSE d[i]]
DictDel(d, k) == [i \in DOMAIN d \ {k} |-> d[i]]

\* The registry's dict, self._handlers.
Registered == dicts["_handlers"]

\* JobRegistry() and the handlers of the client; the client holds no dict, has
\* built no trigger.
NoProbe == [op |-> "none", kind |-> "none", exc |-> "",
            type |-> "", class |-> "none", made |-> 0,
            seconds |-> 0, minutes |-> 0, hours |-> 0, built |-> 0,
            trigger |-> IntervalTrigger(0, 0), prev |-> None, at |-> 0,
            next |-> None]
\* Before any call of ConfigLoader.parse_jobs.
NoCfg == [op |-> "none", config |-> EmptyDict, parsed |-> <<>>]

\* Before any call of a decorator or of a decorated function.
NoDeco == [op |-> "none", func |-> "", id |-> "None", name |-> "None",
           global |-> "None", target |-> "None", job_id |-> "", job_name |-> "",
           kind |-> "none", exc |-> "", arg |-> 0, val |-> <<>>]

\* The functions of the client's module that it decorates.
Funcs == {"f", "g"}

\* The threads that call the manager concurrently, and a thread outside
\* the manager's methods.
Threads == {"t1", "t2"}
Idle == [pc |-> "idle", op |-> "none", id |-> "", tmp |-> 0, log |-> <<>>]

ClientInit ==
    /\ objs = [h \in Handlers |-> NewHandler(h)]
    /\ dicts = [d \in {"_handlers", "copy"} |-> EmptyDict]
    /\ held = None
    /\ snap = None
    /\ probe = NoProbe
    /\ cfg = NoCfg
    /\ global_scheduler = "None"
    /\ pending2 = <<>>
    /\ deco = NoDeco
    /\ decorated = [func \in Funcs |-> {}]
    /\ heap = <<>>
    /\ threads = [t \in Threads |-> Idle]

\* (mutant) a call on the registry or on a handler empties the job store.
ClientFrame_drops ==
    /\ store' = [id \in {} |-> 0]
    /\ UNCHANGED <<scheduler_type, scheduler, is_running, state, pending_jobs,
                   instances, pool_shutdown, blocked, skipped, added, nAdds, nAuto,
                   nRuns>>
    /\ UNCHANGED <<hvars, calls, now, nStarted, nDone, nRaised, nResets, xvars>>

\* What a step of the registry's client leaves alone: JobRegistry and
\* JobHandler hold no reference to the manager or its scheduler.
ClientFrame ==
    UNCHANGED <<svars, hvars, calls, now, nStarted, nDone, nRaised, nResets, xvars>>

\* The outcome of a call on the registry or on a handler: arg is the handler
\* the call was made with or on.
CallOf(op, id, h) == [Returned(op, PyNone) EXCEPT !.id = id, !.arg = h]

\* JobRegistry.get_handler(job_id): self._handlers.get(job_id)
get_handler(job_id) ==
    IF job_id \in DOMAIN Registered THEN Some(Registered[job_id]) ELSE None

\* (mutant) register keeps the handler an id already has.
RegisterDict_keep(d, handler) ==
    IF objs[handler].job_id \in DOMAIN d THEN d
    ELSE DictSet(d, objs[handler].job_id, handler)

\* self._handlers[handler.job_id] = handler
RegisterDict(d, handler) == DictSet(d, objs[handler].job_id, handler)

\* JobRegistry.register(handler)
register(handler) ==
    /\ dicts' = [dicts EXCEPT !["_handlers"] = RegisterDict(@, handler)]
    /\ ret' = [CallOf("register", objs[handler].job_id, handler)
                  EXCEPT !.dup = get_handler(objs[handler].job_id)]
    /\ UNCHANGED <<objs, held, snap, probe>>
    /\ ClientFrame

\* (mutant) unregister empties the registry.
UnregisterDict_clear(d, job_id) == IF job_id \in DOMAIN d THEN EmptyDict ELSE d

\* if job_id in self._handlers: del self._handlers[job_id]
UnregisterDict(d, job_id) == IF job_id \in DOMAIN d THEN DictDel(d, job_id) ELSE d

\* JobRegistry.unregister(job_id)
unregister(job_id) ==
    /\ dicts' = [dicts EXCEPT !["_handlers"] = UnregisterDict(@, job_id)]
    /\ ret' = [CallOf("unregister", job_id, "") EXCEPT !.dup = get_handler(job_id)]
    /\ UNCHANGED <<objs, held, snap, probe>>
    /\ ClientFrame

\* (mutant) get_all_handlers returns the registry's own dict.
CopyResult_same(d) == d

\* dict.copy() returns a new dict object.
CopyResult(d) == "copy"

\* JobRegistry.get_all_handlers(): return self._handlers.copy(); the client
\* keeps the dict it got (and drops the one it held before).
get_all_handlers ==
    /\ dicts' = [dicts EXCEPT !["copy"] = Registered]
    /\ held' = Some(CopyResult("_handlers"))
    /\ ret' = CallOf("get_all_handlers", "", "")
    /\ UNCHANGED <<objs, snap, probe>>
    /\ ClientFrame

\* The client writes into the dict it holds: handlers[job_id] = handler
held_set(job_id, handler) ==
    /\ held # None
    /\ dicts' = [dicts EXCEPT ![held[1]] = DictSet(@, job_id, handler)]
    /\ ret' = CallOf("held_set", job_id, handler)
    /\ UNCHANGED <<objs, held, snap, probe>>
    /\ ClientFrame

\* The client deletes a key of the dict it holds: del handlers[job_id]
held_del(job_id) ==
    /\ held # None
    /\ job_id \in DOMAIN dicts[held[1]]
    /\ dicts' = [dicts EXCEPT ![held[1]] = DictDel(@, job_id)]
    /\ ret' = CallOf("held_del", job_id, "")
    /\ UNCHANGED <<objs, held, snap, probe>>
    /\ ClientFrame

\* datetime.isoformat(): the string for the time t.
isoformat(t) == <<"iso", t>>

\* (mutant) get_stats reports the counters of a new handler.
JobHandler_get_stats_zero(o) ==
    [job_id |-> o.job_id, name |-> o.name, execution_count |-> 0,
     last_execution_time |-> <<>>, error_count |-> 0, last_error |-> <<>>]

\* JobHandler.get_stats() of a handler with attributes o: a new dict.
JobHandler_get_stats(o) ==
    [job_id |-> o.job_id,
     name |-> o.name,
     execution_count |-> o.execution_count,
     last_execution_time |-> IF o.last_execution_time # None
                             THEN Some(isoformat(o.last_execution_time[1]))
                             ELSE None,
     error_count |-> o.error_count,
     last_error |-> o.last_error]

\* (mutant) the registry reports every id with the statistics of a new handler.
JobRegistry_get_stats_zero ==
    [job_id \in DOMAIN Registered |->
        JobHandler_get_stats(NewHandler(Registered[job_id]))]

\* JobRegistry.get_stats(): {job_id: handler.get_stats() for job_id, handler
\* in self._handlers.items()}
JobRegistry_get_stats ==
    [job_id \in DOMAIN Registered |-> JobHandler_get_stats(objs[Registered[job_id]])]

\* The client calls handler.get_stats() and keeps the dict.
get_stats(h) ==
    /\ snap' = Some(JobHandler_get_stats(objs[h]))
    /\ ret' = CallOf("get_stats", objs[h].job_id, h)
    /\ UNCHANGED <<objs, dicts, held, probe>>
    /\ ClientFrame

\* The client writes into the dict it got from get_stats:
\* stats['execution_count'] = -1
snap_set ==
    /\ snap # None
    /\ snap' = Some([snap[1] EXCEPT !.execution_count = -1])
    /\ ret' = CallOf("snap_set", "", "")
    /\ UNCHANGED <<objs, dicts, held, probe>>
    /\ ClientFrame

\* The attributes after execute() has counted the call in (121, 125).
Counted(o, t) ==
    [o EXCEPT !.execution_count = @ + 1, !.last_execution_time = Some(t)]

\* The attributes after the except block has recorded exception e (149, 153).
Failed(o, e) == [o EXCEPT !.error_count = @ + 1, !.last_error = Some(Str(e))]

\* handler.execute() with a callable that returns: one whole call.
execute_returns(h, maxExec) ==
    /\ objs[h].execution_count < maxExec
    /\ objs' = [objs EXCEPT ![h] = Counted(@, now)]
    /\ ret' = CallOf("execute", objs[h].job_id, h)
    /\ UNCHANGED <<dicts, held, snap, probe>>
    /\ ClientFrame

\* handler.execute() with a callable that raises e: one whole call.
execute_raises(h, e, maxExec) ==
    /\ objs[h].execution_count < maxExec
    /\ objs' = [objs EXCEPT ![h] = Failed(Counted(@, now), e)]
    /\ ret' = [Raised("execute", e.type) EXCEPT !.id = objs[h].job_id, !.arg = h]
    /\ UNCHANGED <<dicts, held, snap, probe>>
    /\ ClientFrame

\* handler.reset_stats(): one whole call.
reset_stats(h) ==
    /\ objs' = [objs EXCEPT ![h] = [@ EXCEPT !.execution_count = 0,
                                             !.error_count = 0,
                                             !.last_execution_time = None,
                                             !.last_error = None]]
    /\ ret' = CallOf("reset_stats", objs[h].job_id, h)
    /\ UNCHANGED <<dicts, held, snap, probe>>
    /\ ClientFrame

---------------------------------------------------------------------------
\* Interval triggers as the package builds them: interval_job (decorators.py)
\* and ConfigLoader.create_trigger (config_loader.py) call APScheduler's
\* IntervalTrigger with the seconds, minutes and hours they are given.  One
\* tick of the clock is one second.

TrigMaxUnit == 1            \* SpecTrigger: seconds, minutes, hours are 0..TrigMaxUnit
TrigMaxClock == 2           \* SpecTrigger: clock ticks
TrigMaxArg == 3             \* SpecTrigger: times passed to get_next_fire_time

\* timedelta(seconds=..., minutes=..., hours=...) in seconds.
TotalSeconds(seconds, minutes, hours) == seconds + 60 * minutes + 3600 * hours

\* IntervalTrigger.__init__: self.interval_length, which is set to 1 (second)
\* `if self.interval_length == 0`.
IntervalLength(seconds, minutes, hours) ==
    IF TotalSeconds(seconds, minutes, hours) = 0 THEN 1
    ELSE TotalSeconds(seconds, minutes, hours)

\* The client has built IntervalTrigger(seconds=.., minutes=.., hours=..).
Built(op, seconds, minutes, hours) ==
    [NoProbe EXCEPT !.op = op, !.kind = "return",
                    !.type = "interval", !.class = "IntervalTrigger", !.made = 1,
                    !.seconds = seconds, !.minutes = minutes, !.hours = hours,
                    !.built = now,
                    !.trigger = IntervalTrigger(IntervalLength(seconds, minutes, hours),
                                                now)]

\* What building a trigger or asking it for a fire time leaves alone.
ProbeFrame ==
    /\ UNCHANGED <<objs, dicts, held, snap, ret, nOps>>
    /\ ClientFrame

\* interval_job(seconds, minutes, hours): the decorator builds its trigger.
interval_job(seconds, minutes, hours) ==
    /\ probe' = Built("interval_job", seconds, minutes, hours)
    /\ ProbeFrame

\* The trigger types a configuration file may name: the two the loader
\* knows, APScheduler's third one, and a misspelt one.
TriggerTypes == {"interval", "cron", "date", "Interval"}

\* (mutant) a type that is not 'cron' gets an interval trigger.
TriggerClass_default(trigger_type) ==
    IF trigger_type = "cron" THEN "CronTrigger" ELSE "IntervalTrigger"

\* ConfigLoader.create_trigger's if / elif / else on trigger_type: the class
\* it constructs, "none" in the else branch.
TriggerClass(trigger_type) ==
    IF trigger_type = "interval" THEN "IntervalTrigger"
    ELSE IF trigger_type = "cron" THEN "CronTrigger"
    ELSE "none"

\* CronTrigger(second=.., minute=.., hour=..): its fire times are not
\* modelled, only that it was constructed.
BuiltCron(second, minute, hour) ==
    [NoProbe EXCEPT !.op = "create_trigger", !.kind = "return",
                    !.type = "cron", !.class = "CronTrigger", !.made = 1,
                    !.seconds = second, !.minutes = minute, !.hours = hour,
                    !.built = now]

\* raise ValueError(f"... {trigger_type}"): no constructor has been called.
Unsupported(trigger_type, seconds, minutes, hours) ==
    [NoProbe EXCEPT !.op = "create_trigger", !.kind = "raise",
                    !.exc = "ValueError", !.type = trigger_type,
                    !.seconds = seconds, !.minutes = minutes, !.hours = hours]

\* ConfigLoader.create_trigger(trigger_type, trigger_params): the parameters
\* that are not given are the constructor's defaults (0 for IntervalTrigger).
\* The three numbers are seconds, minutes, hours of an interval, or second,
\* minute, hour of a cron expression.
create_trigger(trigger_type, seconds, minutes, hours) ==
    /\ probe' = CASE TriggerClass(trigger_type) = "IntervalTrigger" ->
                       [Built("create_trigger", seconds, minutes, hours)
                           EXCEPT !.type = trigger_type]
                   [] TriggerClass(trigger_type) = "CronTrigger" ->
                       [BuiltCron(seconds, minutes, hours)
                           EXCEPT !.type = trigger_type]
                   [] OTHER -> Unsupported(trigger_type, seconds, minutes, hours)
    /\ ProbeFrame

\* trigger.get_next_fire_time(previous_fire_time, now) on the trigger built.
get_next_fire_time(prev, t) ==
    /\ probe.op # "none"
    /\ probe.class = "IntervalTrigger"
    /\ probe' = [probe EXCEPT !.op = "get_next_fire_time", !.prev = prev, !.at = t,
                               !.next = NextFire(probe.trigger, prev, t)]
    /\ ProbeFrame

---------------------------------------------------------------------------
\* ConfigLoader.parse_jobs (config_loader.py:108-193).  A configuration is
\* what yaml.safe_load returned: dicts (functions from the keys present),
\* lists, strings and booleans, each value carrying its Python type.

ConfMaxJobs == 2            \* SpecConfig: jobs in a configuration

ConfNone == [type |-> "NoneType", val |-> ""]
ConfStr(x) == [type |-> "str", val |-> x]
ConfBool(b) == [type |-> "bool", val |-> b]
ConfList(l) == [type |-> "list", val |-> l]
ConfDict(d) == [type |-> "dict", val |-> d]

\* d.get(k, default)
Get(d, k, default) == IF k \in DOMAIN d THEN d[k] ELSE default

\* The keys a job of the configuration has: none, the id alone, the id and
\* one optional key, or all of them.
JobKeys == {"id", "name", "func", "trigger", "params", "args", "kwargs", "enabled"}
JobShapes == {{}, {"id"}, {"id", "func"}, {"id", "name"}, {"id", "enabled"},
              {"id", "args"}, {"id", "kwargs"}, {"id", "trigger"},
              {"id", "trigger", "params"}, JobKeys}

\* The job with the given id and keys as yaml.safe_load returns it: a job
\* that says `enabled` is disabled, and `params` are inside `trigger`.
JobDict(id, keys) ==
    [k \in keys \ {"params"} |->
        CASE k = "id" -> ConfStr(id)
          [] k = "name" -> ConfStr("Job One")
          [] k = "func" -> ConfStr("func1")
          [] k = "trigger" ->
                ConfDict([t \in (IF "params" \in keys THEN {"type", "params"}
                                                      ELSE {"type"}) |->
                             IF t = "type" THEN ConfStr("interval")
                             ELSE ConfDict([seconds |-> 5])])
          [] k = "args" -> ConfList(<<1>>)
          [] k = "kwargs" -> ConfDict([x |-> 1])
          [] k = "enabled" -> ConfBool(FALSE)]

JobDicts == {JobDict(id, keys) : id \in {"job1", "job2"}, keys \in JobShapes}

\* The configurations: with a list of jobs, or without the key 'jobs'.
Configs ==
    {[k \in {"jobs"} |-> ConfList(l)] :
        l \in UNION {[1..n -> JobDicts] : n \in 0..ConfMaxJobs}}
    \cup {EmptyDict, [k \in {"scheduler"} |-> ConfDict(EmptyDict)]}

\* parsed_job = {...}: the dict parse_jobs builds for one job.
ParsedJob(job) ==
    [id |-> Get(job, "id", ConfNone),
     name |-> Get(job, "name", Get(job, "id", ConfNone)),
     func |-> Get(job, "func", ConfNone),
     trigger_type |-> Get(Get(job, "trigger", ConfDict(EmptyDict)).val,
                          "type", ConfNone),
     trigger_params |-> Get(Get(job, "trigger", ConfDict(EmptyDict)).val,
                            "params", ConfDict(EmptyDict)),
     args |-> Get(job, "args", ConfList(<<>>)),
     kwargs |-> Get(job, "kwargs", ConfDict(EmptyDict)),
     enabled |-> Get(job, "enabled", ConfBool(TRUE))]

\* job.get('enabled', True) is true.
Enabled(job) == Get(job, "enabled", ConfBool(TRUE)).val

\* (mutant) the loop skips the jobs that are not enabled.
ParsedJobs_enabled(jobs) ==
    LET kept == SelectSeq(jobs, Enabled)
    IN  [i \in 1..Len(kept) |-> ParsedJob(kept[i])]

\* for job in jobs: parsed_jobs.append(parsed_job)
ParsedJobs(jobs) == [i \in 1..Len(jobs) |-> ParsedJob(jobs[i])]

\* What a call of the loader leaves alone.
LoaderFrame ==
    /\ UNCHANGED <<svars, hvars, calls, now, nStarted, nDone, nRaised, nResets>>
    /\ UNCHANGED <<objs, dicts, held, snap, probe, ret, nOps>>
    /\ UNCHANGED <<global_scheduler, pending2, deco, decorated, heap, threads>>

\* ConfigLoader.load_from_file(file_path): config is what yaml.safe_load
\* made of the file.  The client loads one file.
load_from_file(config) ==
    /\ cfg.op = "none"
    /\ cfg' = [op |-> "load_from_file", config |-> config, parsed |-> <<>>]
    /\ LoaderFrame

\* ConfigLoader.parse_jobs(config), with the configuration the client has
\* loaded.
parse_jobs(config) ==
    /\ cfg.op = "load_from_file"
    /\ config = cfg.config
    /\ cfg' = [op |-> "parse_jobs", config |-> config,
               parsed |-> ParsedJobs(Get(config, "jobs", ConfList(<<>>)).val)]
    /\ LoaderFrame

---------------------------------------------------------------------------
\* The decorators (decorators.py): scheduled_job, interval_job and cron_job
\* return `decorator`, which registers the function on the module's
\* _global_scheduler, if there is one, and returns `wrapper`.  The client has
\* two SchedulerManagers, "manager" (the one modelled above) and "manager2",
\* and starts neither while it decorates.

DecoMaxOps == 4             \* SpecDeco: calls the client makes
DecoMaxArg == 1             \* SpecDeco: arguments of a decorated function

DecoOps == {"scheduled_job", "interval_job", "cron_job"}
Schedulers == {"manager", "manager2"}

\* CronTrigger(hour=hour, minute=minute, ...): its fire times are not
\* modelled.
CronTrigger(hour, minute) == [class |-> "CronTrigger", hour |-> hour, minute |-> minute]

\* The trigger in the decorator's closure: the one scheduled_job was given,
\* or the one interval_job or cron_job has built.
TriggerOf(op) ==
    CASE op = "scheduled_job" -> IntervalTrigger(2, now)
      [] op = "interval_job" -> IntervalTrigger(IntervalLength(1, 0, 0), now)
      [] op = "cron_job" -> CronTrigger(9, 0)

\* f"{func.__module__}.{func.__name__}" for the functions of the module
\* "tasks".
QualifiedName(func) == IF func = "f" THEN "tasks.f" ELSE "tasks.g"

\* `x or y`: x unless it is None or the empty string.
Or(x, y) == IF x \in {"None", ""} THEN y ELSE x

\* (mutant) the id given, also when none is given.
JobId_given(id, func) == id

\* job_id = id or f"{func.__module__}.{func.__name__}"
JobId(id, func) == Or(id, QualifiedName(func))

\* job_name = name or func.__name__
JobName(name, func) == Or(name, func)

\* (mutant) without a global scheduler the decorator registers on manager2.
DecoratorTarget_default(g) == IF g = "None" THEN "manager2" ELSE g

\* `if _global_scheduler is not None:` -- the scheduler the decorator calls
\* add_job on, "None" when it calls none.
DecoratorTarget(g) == g

\* What the original function returns for an argument.
Original(func, arg) == <<func, arg>>

\* (mutant) the wrapper drops the function's result.
wrapper_none(func, arg) == <<>>

\* wrapper(*args, **func_kwargs): return func(*args, **func_kwargs)
wrapper(func, arg) == Original(func, arg)

\* What a call into decorators.py leaves alone.
DecoFrame ==
    /\ UNCHANGED <<objs, dicts, held, snap, probe, cfg, heap, threads>>

\* What a call that does not reach a SchedulerManager leaves alone.
NoManagerCall ==
    /\ ret' = NoRet
    /\ UNCHANGED <<svars, hvars, calls, now, nStarted, nDone, nRaised, nResets>>

\* set_global_scheduler(scheduler): scheduler is "None" for None.
set_global_scheduler(sched) ==
    /\ nOps < DecoMaxOps
    /\ nOps' = nOps + 1
    /\ global_scheduler' = sched
    /\ deco' = [NoDeco EXCEPT !.op = "set_global_scheduler", !.kind = "return",
                              !.global = sched]
    /\ NoManagerCall
    /\ UNCHANGED <<pending2, decorated>>
    /\ DecoFrame

\* manager2.add_job(...): manager2 is a SchedulerManager that has not been
\* started, so that its scheduler appends the job to its pending jobs.
add_job2(func, name, id, trig) ==
    /\ Len(pending2) < MaxAdds
    /\ pending2' = Append(pending2,
                          [job |-> [NewJob(id, trig) EXCEPT !.func = func, !.name = name],
                           replace_existing |-> FALSE])
    /\ NoManagerCall

\* decorator(func), the decorator that op(trigger, id=id, name=name) has
\* returned: an exception of add_job leaves it, and func is then not bound
\* to a wrapper.
decorator(op, trig, id, name, func) ==
    /\ nOps < DecoMaxOps
    /\ nOps' = nOps + 1
    /\ LET target == DecoratorTarget(global_scheduler)
           job_id == JobId(id, func)
           job_name == JobName(name, func)
           call == [NoDeco EXCEPT !.op = op, !.func = func, !.id = id, !.name = name,
                                  !.global = global_scheduler, !.target = target]
       IN  CASE target = "manager" ->
                  /\ add_job_func(func, job_name, job_id, trig, FALSE)
                  /\ pending2' = pending2
                  /\ deco' = [call EXCEPT !.job_id = job_id, !.job_name = job_name,
                                          !.kind = ret'.kind, !.exc = ret'.exc]
                  /\ decorated' = IF ret'.kind = "return"
                                  THEN [decorated EXCEPT ![func] = @ \cup {global_scheduler}]
                                  ELSE decorated
             [] target = "manager2" ->
                  /\ add_job2(func, job_name, job_id, trig)
                  /\ deco' = [call EXCEPT !.job_id = job_id, !.job_name = job_name,
                                          !.kind = "return"]
                  /\ decorated' = [decorated EXCEPT ![func] = @ \cup {global_scheduler}]
             [] OTHER ->
                  /\ NoManagerCall
                  /\ pending2' = pending2
                  /\ deco' = [call EXCEPT !.kind = "return"]
                  /\ decorated' = [decorated EXCEPT ![func] = @ \cup {global_scheduler}]
    /\ global_scheduler' = global_scheduler
    /\ DecoFrame

\* func(arg) by the name the decorator has bound to the wrapper.
call_wrapper(func, arg) ==
    /\ nOps < DecoMaxOps
    /\ nOps' = nOps + 1
    /\ decorated[func] # {}
    /\ deco' = [NoDeco EXCEPT !.op = "wrapper", !.func = func, !.arg = arg,
                              !.kind = "return", !.val = wrapper(func, arg)]
    /\ NoManagerCall
    /\ UNCHANGED <<global_scheduler, pending2, decorated>>
    /\ DecoFrame

---------------------------------------------------------------------------
\* Threads inside SchedulerManager.add_job and SchedulerManager.start
\* (scheduler_manager.py:162-191, 221-274), statement by statement.  The
\* manager takes no lock, so a thread may be preempted between any two of
\* its statements, and between the call of _create_scheduler and the
\* assignment of its result.  heap holds the scheduler objects created;
\* the manager's self._scheduler (the variable scheduler) is None or
\* Some(i), a reference to heap[i].  The calls of one scheduler object
\* (add_job, start) are atomic: APScheduler runs them under its own locks.

RaceMaxCalls == 3           \* SpecRace: calls the threads make in all

\* BackgroundScheduler(...): stopped, nothing pending, an empty job store,
\* never started.
NewScheduler == [state |-> "STOPPED", pending |-> <<>>, jobs |-> {}, started |-> 0]

\* The calls made so far.
RaceCalls ==
    LET n(t) == Len(threads[t].log) + (IF threads[t].pc = "idle" THEN 0 ELSE 1)
    IN  n("t1") + n("t2")

\* What a step of a thread inside the manager leaves alone.
RaceFrame ==
    /\ ret' = NoRet
    /\ UNCHANGED <<scheduler_type, state, pending_jobs, store, instances,
                   pool_shutdown, blocked, skipped, added, nAdds, nAuto, nRuns>>
    /\ UNCHANGED <<hvars, calls, now, nStarted, nDone, nRaised, nResets, nOps>>
    /\ UNCHANGED <<objs, dicts, held, snap, probe, cfg, global_scheduler, pending2,
                   deco, decorated>>

\* The thread is at pc.
At(t, pc) == threads[t].pc = pc

\* The thread moves to pc.
Goto(t, pc) == threads' = [threads EXCEPT ![t].pc = pc]

\* The thread's call returns or raises: it is outside the manager again.
Leave(t, kind, exc) ==
    threads' = [threads EXCEPT
                  ![t].pc = "idle",
                  ![t].log = Append(@, [op |-> threads[t].op, id |-> threads[t].id,
                                        kind |-> kind, exc |-> exc])]

\* A thread calls manager.add_job(func, trigger, id=id) or manager.start().
Enter(t, op, id) ==
    /\ At(t, "idle")
    /\ RaceCalls < RaceMaxCalls
    /\ threads' = [threads EXCEPT ![t].pc = IF op = "start" THEN "L170" ELSE "L254",
                                  ![t].op = op, ![t].id = id]
    /\ UNCHANGED <<scheduler, is_running, heap>>
    /\ RaceFrame

\* `self._scheduler is None`
IsNone(ref) == ref = None

\* add_job, line 254, and start, line 177: `if self._scheduler is None:`
TestScheduler(t, here, create, load) ==
    /\ At(t, here)
    /\ Goto(t, IF IsNone(scheduler) THEN create ELSE load)
    /\ UNCHANGED <<scheduler, is_running, heap>>
    /\ RaceFrame

\* lines 256 and 179, right-hand side: self._create_scheduler()
CreateScheduler(t, here, store_pc) ==
    /\ At(t, here)
    /\ heap' = Append(heap, NewScheduler)
    /\ threads' = [threads EXCEPT ![t].pc = store_pc, ![t].tmp = Len(heap) + 1]
    /\ UNCHANGED <<scheduler, is_running>>
    /\ RaceFrame

\* lines 256 and 179, the assignment: self._scheduler = <the new scheduler>
StoreScheduler(t, here, load) ==
    /\ At(t, here)
    /\ scheduler' = Some(threads[t].tmp)
    /\ Goto(t, load)
    /\ UNCHANGED <<is_running, heap>>
    /\ RaceFrame

\* lines 261 and 185: the thread reads self._scheduler to call its method.
LoadScheduler(t, here, call) ==
    /\ At(t, here)
    /\ threads' = [threads EXCEPT ![t].pc = call, ![t].tmp = scheduler[1]]
    /\ UNCHANGED <<scheduler, is_running, heap>>
    /\ RaceFrame

\* lines 261-267: scheduler.add_job(...) on the object read, then return
\* (line 274).  A stopped scheduler appends to its pending jobs; a running
\* one adds to its store, and raises ConflictingIdError for an id it holds.
L261_call(t) ==
    /\ At(t, "L261_call")
    /\ LET i == threads[t].tmp
           id == threads[t].id
       IN  IF heap[i].state = "STOPPED"
           THEN /\ heap' = [heap EXCEPT ![i].pending = Append(@, id)]
                /\ Leave(t, "return", "")
           ELSE IF id \in heap[i].jobs
           THEN /\ heap' = heap
                /\ Leave(t, "raise", "ConflictingIdError")
           ELSE /\ heap' = [heap EXCEPT ![i].jobs = @ \cup {id}]
                /\ Leave(t, "return", "")
    /\ UNCHANGED <<scheduler, is_running>>
    /\ RaceFrame

\* line 170: `if self._is_running: return`
L170(t) ==
    /\ At(t, "L170")
    /\ IF is_running THEN Leave(t, "return", "") ELSE Goto(t, "L177")
    /\ UNCHANGED <<scheduler, is_running, heap>>
    /\ RaceFrame

\* The ids of a sequence of pending jobs are distinct.
Distinct(pending) ==
    \A i, j \in 1..Len(pending) : pending[i] = pending[j] => i = j

\* line 185: scheduler.start() on the object read.  It raises
\* SchedulerAlreadyRunningError unless the scheduler is stopped, and
\* ConflictingIdError if two pending jobs have one id; else the pending
\* jobs are in the store and the scheduler runs.
L185_call(t) ==
    /\ At(t, "L185_call")
    /\ LET i == threads[t].tmp
       IN  IF heap[i].state # "STOPPED"
           THEN /\ heap' = heap
                /\ Leave(t, "raise", "SchedulerAlreadyRunningError")
           ELSE IF ~Distinct(heap[i].pending)
           THEN /\ heap' = heap
                /\ Leave(t, "raise", "ConflictingIdError")
           ELSE /\ heap' = [heap EXCEPT
                              ![i].state = "RUNNING",
                              ![i].jobs = {heap[i].pending[k] :
                                             k \in 1..Len(heap[i].pending)},
                              ![i].pending = <<>>,
                              ![i].started = @ + 1]
                /\ Goto(t, "L188")
    /\ UNCHANGED <<scheduler, is_running>>
    /\ RaceFrame

\* line 188: self._is_running = True, and start returns.
L188(t) ==
    /\ At(t, "L188")
    /\ is_running' = TRUE
    /\ Leave(t, "return", "")
    /\ UNCHANGED <<scheduler, heap>>
    /\ RaceFrame

\* A step of a thread inside add_job.
AddJobStep(t) ==
    \/ TestScheduler(t, "L254", "L256_create", "L261_load")
    \/ CreateScheduler(t, "L256_create", "L256_store")
    \/ StoreScheduler(t, "L256_store", "L261_load")
    \/ LoadScheduler(t, "L261_load", "L261_call")
    \/ L261_call(t)

\* A step of a thread inside start.
StartStep(t) ==
    \/ L170(t)
    \/ TestScheduler(t, "L177", "L179_create", "L185_load")
    \/ CreateScheduler(t, "L179_create", "L179_store")
    \/ StoreScheduler(t, "L179_store", "L185_load")
    \/ LoadScheduler(t, "L185_load", "L185_call")
    \/ L185_call(t)
    \/ L188(t)

\* manager.get_jobs() in the thread model: the ids of the jobs of the
\* scheduler the manager refers to.
RaceGetJobs ==
    IF scheduler = None THEN {}
    ELSE LET o == heap[scheduler[1]]
         IN  IF o.state = "STOPPED" THEN {o.pending[k] : k \in 1..Len(o.pending)}
             ELSE o.jobs

---------------------------------------------------------------------------
\* Spec: a client adds jobs to a SchedulerManager, starts and stops it; the
\* scheduler's main loop submits due jobs and pool threads run them.
Init ==
    /\ HandlerInit
    /\ ClientInit
    /\ calls = EmptyBag
    /\ now = 0
    /\ nStarted = 0 /\ nDone = 0 /\ nRaised = 0 /\ nResets = 0
    /\ \E type \in {"blocking", "background"} : ManagerInit(type)

Next ==
    /\ \/ \E id \in Ids \cup {"None"}, p \in Periods, rep \in BOOLEAN : add_job(id, p, rep)
       \/ start
       \/ \E wait \in BOOLEAN : stop(wait)
       \/ stop_returns
       \/ _process_jobs(MaxRuns)
       \/ \E r \in BagToSet(calls) : run_job(r)
       \/ \E r \in BagToSet(calls) : func_returns(r)
       \/ ExecFailStep
       \/ TickClock(MaxClock)
    /\ UNCHANGED <<nOps, rvars>>

Spec == Init /\ [][Next]_vars

---------------------------------------------------------------------------
\* SpecJobs: a client manages the jobs of a background manager (add, remove,
\* pause, resume), starts and stops it; the jobs are healthy ones, given with
\* the id "b" or without an id, and the job operations are called with the
\* ids of these jobs (present or not).
JobIds == {"b"} \cup {AutoIds[i] : i \in DOMAIN AutoIds}

InitJobs ==
    /\ HandlerInit
    /\ ClientInit
    /\ calls = EmptyBag
    /\ now = 0
    /\ nStarted = 0 /\ nDone = 0 /\ nRaised = 0 /\ nResets = 0
    /\ ManagerInit("background")

NextJobs ==
    /\ \/ /\ nOps < JobsMaxOps
          /\ nOps' = nOps + 1
          /\ \/ \E id \in {"b", "None"}, p \in Periods, rep \in BOOLEAN : add_job(id, p, rep)
             \/ start
             \/ \E wait \in BOOLEAN : stop(wait)
             \/ \E id \in JobIds : remove_job(id)
             \/ \E id \in JobIds : pause_job(id)
             \/ \E id \in JobIds : resume_job(id)
       \/ /\ UNCHANGED nOps
          /\ \/ stop_returns
             \/ _process_jobs(JobsMaxRuns)
             \/ \E r \in BagToSet(calls) : run_job(r)
             \/ \E r \in BagToSet(calls) : func_returns(r)
             \/ TickClock(JobsMaxClock)
    /\ UNCHANGED rvars

SpecJobs == InitJobs /\ [][NextJobs]_vars

---------------------------------------------------------------------------
\* SpecRun: the timing loop and the executor at work.  A background manager
\* has been given the failing job "a" and the healthy job "b" at time 0
\* (add_job, add_job) and has been started (start): the jobs are in the store
\* with the manager's defaults and the scheduler is RUNNING.  The failing job
\* has a period above one, the healthy job any period.
InitRun ==
    /\ HandlerInit
    /\ ClientInit
    /\ calls = EmptyBag
    /\ now = 0
    /\ nStarted = 0 /\ nDone = 0 /\ nRaised = 0 /\ nResets = 0
    /\ scheduler_type = "background"
    /\ scheduler = Some("scheduler")
    /\ is_running = TRUE
    /\ state = "RUNNING"
    /\ pending_jobs = <<>>
    /\ \E pa \in Periods \ {1}, pb \in Periods :
          store = AddPending(EmptyStore,
                             <<[job |-> NewJob("a", IntervalTrigger(pa, 0)),
                                replace_existing |-> FALSE],
                               [job |-> NewJob("b", IntervalTrigger(pb, 0)),
                                replace_existing |-> FALSE]>>, 0).store
    /\ instances = [id \in IdSet |-> 0]
    /\ pool_shutdown = FALSE
    /\ blocked = "none"
    /\ skipped = {}
    /\ ret = NoRet
    /\ added = <<"a", "b">>
    /\ nOps = 3
    /\ nAdds = 2 /\ nAuto = 0 /\ nRuns = 0

NextRun ==
    /\ \/ _process_jobs(RunMaxRuns)
       \/ \E r \in BagToSet(calls) : run_job(r)
       \/ \E r \in BagToSet(calls) : func_returns(r)
       \/ ExecFailStep
       \/ TickClock(RunMaxClock)
    /\ UNCHANGED <<nOps, rvars>>

SpecRun == InitRun /\ [][NextRun]_vars

---------------------------------------------------------------------------
\* SpecHandler: threads call execute() and reset_stats() on one JobHandler
\* directly, concurrently, with a callable that may return or raise.
InitHandler ==
    /\ HandlerInit
    /\ ClientInit
    /\ calls = EmptyBag
    /\ now = 0
    /\ nStarted = 0 /\ nDone = 0 /\ nRaised = 0 /\ nResets = 0
    /\ ManagerInit("background")

NextHandler ==
    /\ \/ StartExecute("none")
       \/ StartReset
       \/ HandlerStep
       \/ \E r \in BagToSet(calls) : Collect(r)
       \/ Tick
    /\ UNCHANGED <<svars, ret, nOps, rvars>>

SpecHandler == InitHandler /\ [][NextHandler]_vars

---------------------------------------------------------------------------
\* SpecRegistry: a client registers and unregisters its handlers, runs them,
\* asks the registry for its handlers and changes the dict it got.
InitRegistry ==
    /\ HandlerInit
    /\ ClientInit
    /\ calls = EmptyBag
    /\ now = 0
    /\ nStarted = 0 /\ nDone = 0 /\ nRaised = 0 /\ nResets = 0
    /\ ManagerInit("background")

NextRegistry ==
    /\ nOps < RegMaxOps
    /\ nOps' = nOps + 1
    /\ \/ \E h \in Handlers : register(h)
       \/ \E id \in Ids : unregister(id)
       \/ get_all_handlers
       \/ \E id \in Ids, h \in Handlers : held_set(id, h)
       \/ \E id \in Ids : held_del(id)
       \/ \E h \in Handlers : execute_returns(h, RegMaxExec)
       \/ \E h \in Handlers : execute_raises(h, FailExc, RegMaxExec)

SpecRegistry == InitRegistry /\ [][NextRegistry]_vars

---------------------------------------------------------------------------
\* SpecSnapshot: a client runs and resets one handler, asks it for its
\* statistics and changes the dict it got.
NextSnapshot ==
    \/ /\ nOps < SnapMaxOps
       /\ nOps' = nOps + 1
       /\ \/ execute_returns("h1", SnapMaxExec)
          \/ \E e \in Excs : execute_raises("h1", e, SnapMaxExec)
          \/ reset_stats("h1")
          \/ get_stats("h1")
          \/ snap_set
    \/ /\ TickClock(SnapMaxClock)
       /\ UNCHANGED <<nOps, rvars>>

SpecSnapshot == InitRegistry /\ [][NextSnapshot]_vars

---------------------------------------------------------------------------
\* SpecLife: one client uses a registry and a background manager side by
\* side.  It registers, unregisters and runs its handlers; it adds the job
\* "b" with an interval trigger that has an end date (the trigger fires
\* once) or has none, starts and stops the manager, removes, pauses and
\* resumes the job; the main loop dispatches the job and drops it once its
\* trigger has no fire time left.
NextLife ==
    \/ /\ nOps < LifeMaxOps
       /\ nOps' = nOps + 1
       /\ \/ /\ \/ \E h \in {"h1", "h3"} : register(h)
                \/ unregister("b")
                \/ execute_returns("h3", LifeMaxExec)
             /\ UNCHANGED <<snap, probe>>
          \/ /\ \/ add_job_trigger("b", IntervalTriggerUntil(1, now, now + 1), FALSE)
                \/ add_job("b", 1, FALSE)
                \/ start
                \/ stop(FALSE)
                \/ remove_job("b")
                \/ pause_job("b")
                \/ resume_job("b")
             /\ UNCHANGED rvars
    \/ /\ \/ _process_jobs(LifeMaxRuns)
          \/ \E r \in BagToSet(calls) : run_job(r)
          \/ \E r \in BagToSet(calls) : func_returns(r)
          \/ TickClock(LifeMaxClock)
       /\ UNCHANGED <<nOps, rvars>>

SpecLife == InitRegistry /\ [][NextLife]_vars

---------------------------------------------------------------------------
\* SpecCoalesce: the main loop finds missed firings.  A background manager
\* has been given the healthy job "b" with IntervalTrigger(seconds=1) at time
\* 0, with coalesce left at the manager's default or given as True, and has
\* been started; the main loop may be late by any number of ticks.
InitCoalesce ==
    /\ HandlerInit
    /\ ClientInit
    /\ calls = EmptyBag
    /\ now = 0
    /\ nStarted = 0 /\ nDone = 0 /\ nRaised = 0 /\ nResets = 0
    /\ scheduler_type = "background"
    /\ scheduler = Some("scheduler")
    /\ is_running = TRUE
    /\ state = "RUNNING"
    /\ pending_jobs = <<>>
    /\ \E c \in BOOLEAN :
          store = AddPending(EmptyStore,
                             <<[job |-> [NewJob("b", IntervalTrigger(1, 0))
                                            EXCEPT !.coalesce = c],
                                replace_existing |-> FALSE]>>, 0).store
    /\ instances = [id \in IdSet |-> 0]
    /\ pool_shutdown = FALSE
    /\ blocked = "none"
    /\ skipped = {}
    /\ ret = NoRet
    /\ added = <<"b">>
    /\ nOps = 2
    /\ nAdds = 1 /\ nAuto = 0 /\ nRuns = 0

NextCoalesce ==
    /\ \/ _process_jobs(CoMaxRuns)
       \/ \E r \in BagToSet(calls) : run_job(r)
       \/ \E r \in BagToSet(calls) : func_returns(r)
       \/ TickClock(CoMaxClock)
    /\ UNCHANGED <<nOps, rvars>>

SpecCoalesce == InitCoalesce /\ [][NextCoalesce]_vars

---------------------------------------------------------------------------
\* SpecPool: the thread pool fills up.  A background manager was given, at
\* time 0, job "b" with max_instances=PoolInstances and a job without id,
\* both with IntervalTrigger(seconds=1), and was started; the functions are
\* slow: every run of "b" submitted so far (one per tick) is still running,
\* and so are the last two runs of the other job.
Running(id) == Overlapped(Frame("func", id, "func"))

InitPool ==
    /\ HandlerInit
    /\ ClientInit
    /\ now = PoolInstances - 1
    /\ calls = [r \in {Running("b"), Running("u1")} |->
                   IF r.job = "b" THEN PoolInstances - 1 ELSE DefaultMaxInstances - 1]
    /\ nStarted = 0 /\ nDone = 0 /\ nRaised = 0 /\ nResets = 0
    /\ scheduler_type = "background"
    /\ scheduler = Some("scheduler")
    /\ is_running = TRUE
    /\ state = "RUNNING"
    /\ pending_jobs = <<>>
    /\ store = [id \in {"b", "u1"} |->
                   [RealJob([NewJob(id, IntervalTrigger(1, 0))
                                EXCEPT !.max_instances =
                                           IF id = "b" THEN PoolInstances ELSE 0], 0)
                       EXCEPT !.next_run_time = Some(now + 1)]]
    /\ instances = [id \in IdSet |->
                       IF id = "b" THEN PoolInstances - 1
                       ELSE IF id = "u1" THEN DefaultMaxInstances - 1 ELSE 0]
    /\ pool_shutdown = FALSE
    /\ blocked = "none"
    /\ skipped = {}
    /\ ret = NoRet
    /\ added = <<"b", "u1">>
    /\ nOps = 3
    /\ nAdds = 2 /\ nAuto = 1
    /\ nRuns = 2 * (PoolInstances - 1)

NextPool ==
    /\ \/ _process_jobs(PoolMaxRuns)
       \/ \E r \in BagToSet(calls) : run_job(r)
       \/ \E r \in BagToSet(calls) : func_returns(r)
       \/ TickClock(PoolMaxClock)
    /\ UNCHANGED <<nOps, rvars>>

SpecPool == InitPool /\ [][NextPool]_vars

---------------------------------------------------------------------------
\* SpecTrigger: a client builds interval triggers from seconds, minutes and
\* hours and asks them for fire times.
Units == 0..TrigMaxUnit
Times == 0..TrigMaxArg

NextTrigger ==
    \/ \E seconds \in Units, minutes \in Units, hours \in Units :
          interval_job(seconds, minutes, hours)
    \/ \E trigger_type \in TriggerTypes,
          seconds \in Units, minutes \in Units, hours \in Units :
          create_trigger(trigger_type, seconds, minutes, hours)
    \/ \E prev \in {None} \cup {Some(t) : t \in Times}, t \in Times :
          get_next_fire_time(prev, t)
    \/ /\ TickClock(TrigMaxClock)
       /\ UNCHANGED <<nOps, rvars>>

SpecTrigger == InitRegistry /\ [][NextTrigger]_vars

---------------------------------------------------------------------------
\* SpecConfig: a client loads a configuration and hands it to
\* ConfigLoader.parse_jobs.
NextConfig ==
    \/ \E config \in Configs : load_from_file(config)
    \/ parse_jobs(cfg.config)

SpecConfig == InitRegistry /\ [][NextConfig]_vars

---------------------------------------------------------------------------
\* SpecDeco: a client module sets the global scheduler, decorates its
\* functions and calls them.
DecoIds == {"None", "", "a"}
DecoNames == {"None", "Job One"}

NextDeco ==
    \/ \E sched \in Schedulers \cup {"None"} : set_global_scheduler(sched)
    \/ \E op \in DecoOps, id \in DecoIds, name \in DecoNames, func \in Funcs :
          decorator(op, TriggerOf(op), id, name, func)
    \/ \E func \in Funcs, arg \in 0..DecoMaxArg : call_wrapper(func, arg)

SpecDeco == InitRegistry /\ [][NextDeco]_vars

---------------------------------------------------------------------------
\* SpecStats: SpecHandler's threads, and a monitoring thread that calls
\* get_stats() on the same JobHandler once, at any moment; a behaviour is
\* followed up to the snapshot.  The monitor reads the four attributes in one
\* step: reading them one by one allows these snapshots and more.
Self ==
    [job_id |-> "a", name |-> "h1",
     execution_count |-> execution_count, last_execution_time |-> last_execution_time,
     error_count |-> error_count, last_error |-> last_error]

monitor_get_stats ==
    /\ snap = None
    /\ snap' = Some(JobHandler_get_stats(Self))
    /\ UNCHANGED <<hvars, calls, now, nStarted, nDone, nRaised, nResets>>
    /\ UNCHANGED <<svars, ret, nOps, objs, dicts, held, probe, xvars>>

NextStats ==
    \/ /\ snap = None
       /\ NextHandler
    \/ monitor_get_stats

SpecStats == InitHandler /\ [][NextStats]_vars

---------------------------------------------------------------------------
\* SpecRace: two threads call add_job and start on one background manager
\* whose scheduler has not been created.
NextRace ==
    \E t \in Threads :
        \/ \E id \in Ids : Enter(t, "add_job", id)
        \/ Enter(t, "start", "")
        \/ AddJobStep(t)
        \/ StartStep(t)

SpecRace == InitRegistry /\ [][NextRace]_vars

---------------------------------------------------------------------------
\* Claims about JobHandler (checked under SpecHandler).

Executes == {r \in BagToSet(calls) : r.op = "execute"}
Resets == {r \in BagToSet(calls) : r.op = "reset_stats"}
\* The callable of call r has been invoked (r is inside it or past it).
Invoked(r) == r.pc \in {"L136", "L149_load", "L149_store", "L153", "done"}

\* C1 (as claimed): once N execute() calls have completed, none still in
\* progress and no reset_stats called, execution_count = N and error_count =
\* the number of those calls that raised, whatever the interleaving.
C1_NoLostUpdate ==
    (Active(calls) = {} /\ nResets = 0)
        => (execution_count = nDone /\ error_count = nRaised)

\* C7: every call of execute has made exactly one increment of execution_count
\* and has set last_execution_time by the time the callable is invoked, and
\* that stays so whether the callable returns or raises; for a call no other
\* thread interfered with, the counter is exactly one above its value at entry
\* and last_execution_time is a clock reading not older than the previous one.
C7_CountedBeforeInvoke ==
    \A r \in Executes :
        Invoked(r) =>
            /\ r.incs = 1
            /\ r.stamped
            /\ ~r.overlap =>
                /\ execution_count = r.pre.ec + 1
                /\ last_execution_time # None
                /\ last_execution_time[1] <= now
                /\ r.pre.let # None => last_execution_time[1] >= r.pre.let[1]

C7_Witness ==
    \E r \in Executes :
        /\ r.pc = "done" /\ ~r.overlap /\ r.exc # NoExc
        /\ r.pre.ec = 1 /\ execution_count = 2 /\ last_execution_time = Some(1)

C9_SuccessLeavesErrorsAlone ==
    \A r \in Executes :
        (r.pc = "done" /\ r.exc = NoExc) =>
            /\ r.result # None
            /\ r.out = [kind |-> "return", val |-> r.result[1], exc |-> NoExc]
            /\ r.errincs = 0
            /\ ~r.overlap =>
                /\ error_count = r.pre.er
                /\ last_error = r.pre.le

C9_Witness ==
    \E r \in Executes :
        /\ r.pc = "done" /\ ~r.overlap /\ r.out.kind = "return" /\ r.out.val = "r2"
        /\ r.pre.er = 1 /\ error_count = 1 /\ last_error = Some("m1")

\* C10: when reset_stats returns, no other thread having interfered, all four
\* statistics are zero / None, whatever executions came before; so a second
\* reset_stats, which starts from that state, ends in the same state.
C10_ResetZeroes ==
    \A r \in Resets :
        (r.pc = "done" /\ ~r.overlap) =>
            /\ execution_count = 0
            /\ error_count = 0
            /\ last_execution_time = None
            /\ last_error = None

\* the second of two reset_stats in a row, after a failing execute
C10_Witness ==
    \E r \in Resets :
        /\ r.pc = "done" /\ ~r.overlap
        /\ r.pre = ZeroStats /\ nResets = 2 /\ nRaised = 1

---------------------------------------------------------------------------
\* Claims about the executor and the timing loop (checked under SpecRun).

\* The runs of job id that have been submitted and have not finished.
RunningOf(id) == CopiesOf({r \in JobRuns : r.job = id}, calls)
MaxInstancesOf(id) ==
    IF id \in DOMAIN store THEN store[id].max_instances ELSE DefaultMaxInstances

\* C2: in every reachable state the number of concurrently running executions
\* of one job is at most the job's max_instances (3, the manager's default);
\* so a firing that arrives while max_instances runs are in flight is not
\* run concurrently with them.
C2_MaxInstances ==
    \A id \in IdSet : RunningOf(id) <= MaxInstancesOf(id)

\* C2 witness: the last pass of the main loop skipped a firing of a job that
\* has max_instances runs in flight.
C2_Witness ==
    \E id \in skipped :
        /\ id \in DOMAIN store
        /\ RunningOf(id) = store[id].max_instances
        /\ store[id].max_instances = DefaultMaxInstances
        /\ store[id].next_run_time # None
        /\ store[id].next_run_time[1] > now

\* C3, first half: once no run of the failing job is inside execute(),
\* error_count is the number of runs that raised.
C3_ErrorsCounted ==
    ({r \in Executes : r.pc # "done"} = {}) => error_count = nRaised

\* C3, second half: the timing loop keeps running, and a pass of the loop
\* that finds a healthy job due submits a run of it (unless max_instances of
\* its own runs are in flight) and moves it to its next fire time.
C3_HealthyDispatched ==
    /\ [](state = "RUNNING")
    /\ [][\A id \in IdSet :
             (FuncOf(id) = "healthy" /\ id \in Due /\ store' # store)
                 => /\ id \in skipped' \/ RunningOf(id)' = RunningOf(id) + 1
                    /\ store'[id].next_run_time[1] > now]_vars

\* C3 (as claimed): a job whose callable raises on every run has error_count
\* incremented by one on each run, and its failures never stop the timing
\* loop: the healthy job keeps being dispatched at its own fire times.
C3_ErrorIsolation == []C3_ErrorsCounted /\ C3_HealthyDispatched

---------------------------------------------------------------------------
\* Claims about SchedulerManager.add_job / get_job / get_jobs (checked under
\* Spec).  `ret` is the add_job call the last step made: ret.dup is what
\* get_job(ret.id) returned just before the call.

\* C4 (as claimed): add_job with an id a job of the manager already uses and
\* without replace_existing raises the duplicate-id error from that very call,
\* started or not, and leaves the first job unchanged; with replace_existing
\* the call succeeds and get_job(id) has the new trigger.
C4_DuplicateId ==
    (ret.op = "add_job" /\ ret.dup # None)
        => IF ret.replace_existing
           THEN /\ ret.kind = "return"
                /\ get_job(ret.id) # None
                /\ get_job(ret.id)[1].trigger = ret.trigger
           ELSE /\ ret.kind = "raise"
                /\ ret.exc = "ConflictingIdError"
                /\ get_job(ret.id) = ret.dup

\* C5 (as claimed): in every reachable state the jobs listed by get_jobs()
\* have pairwise distinct ids.
C5_DistinctIds ==
    \A i \in DOMAIN get_jobs, k \in DOMAIN get_jobs :
        i # k => get_jobs[i].id # get_jobs[k].id

\* C6 (as claimed): add_job returns the id of the job it added: the id
\* argument when one is given, else the generated id under which get_job
\* finds the new job.
C6_ReturnsJobId ==
    (ret.op = "add_job" /\ ret.kind = "return")
        => /\ ret.val = PyStr(ret.id)
           /\ get_job(ret.id) # None
           /\ get_job(ret.id)[1].id = ret.id

---------------------------------------------------------------------------
\* Claims about the manager's life cycle (checked under Spec).

\* C11 (as claimed): for either scheduler type, is_running is True exactly
\* when the underlying scheduler has been started and not yet shut down.
C11_IsRunning == is_running <=> (state = "RUNNING")

\* C12 (as claimed): start() on a manager that is already RUNNING is a no-op:
\* no exception, and is_running, the scheduler instance, its state and the job
\* set are unchanged.
C12_StartWhenRunning ==
    [][(state = "RUNNING" /\ ret'.op = "start")
          => /\ ret'.kind = "return"
             /\ UNCHANGED <<scheduler, is_running, state, store, pending_jobs>>]_vars

\* The manager has been started, stopped and started again: the pool has been
\* shut down once and the scheduler is RUNNING.
Restarted == pool_shutdown /\ state = "RUNNING"

\* A step that is a pass of the scheduler's main loop.
LoopPass == ret'.op = "none" /\ store' # store

\* C13 (as claimed): after start(), stop(), start() the manager is RUNNING
\* again with is_running True, and the jobs in the store are dispatched and
\* executed again at their fire times.
C13_Restart ==
    /\ [](Restarted => is_running)
    /\ [][(Restarted /\ LoopPass)
             => \A id \in Due : MayRun(instances[id], store[id])
                                   => RunningOf(id)' = RunningOf(id) + 1]_vars

\* A step in which a stop() call returns that was made while the scheduler
\* was dispatching (RUNNING at the call; a call with wait=True may have been
\* waiting for the runs in flight since).
StopReturns ==
    /\ state = "RUNNING" \/ blocked = "stop"
    /\ ret'.op = "stop" /\ ret'.kind = "return"

\* C14 (as claimed): when stop() is called while the scheduler is dispatching,
\* for either scheduler type, nothing is dispatched after it has returned until
\* a later start(); with wait=True no run is in flight when it returns; and
\* stop() leaves the runs in flight alone.
C14_StopStopsDispatch ==
    /\ [][StopReturns => /\ state' = "STOPPED"
                         /\ (ret'.wait => JobRuns' = {})]_vars
    /\ [][state = "STOPPED" => \A id \in IdSet : RunningOf(id)' <= RunningOf(id)]_vars
    /\ [][ret'.op = "stop" => calls' = calls]_vars
---------------------------------------------------------------------------
\* Claims about the manager's job operations (checked under SpecJobs).  `ret`
\* is the call the last step made: ret.dup is what get_job(ret.id) returned
\* just before the call.

\* The job get_job(id) returns is paused.
Paused(id) ==
    /\ get_job(id) # None
    /\ get_job(id)[1].has_nrt
    /\ get_job(id)[1].next_run_time = None

\* get_jobs() lists a job with the id.
Listed(id) == \E i \in DOMAIN get_jobs : get_jobs[i].id = id

\* The ids of the jobs get_jobs() lists, in its order.
ListedIds == [i \in DOMAIN get_jobs |-> get_jobs[i].id]

\* A run is submitted only for a job the manager has.
DispatchedOnlyIfPresent ==
    [][\A id \in IdSet : RunningOf(id)' > RunningOf(id) => get_job(id) # None]_vars

\* C15 (as claimed): after remove_job(id) on an existing job, get_job(id) is
\* None, get_jobs() does not list the id, the job is not dispatched again,
\* and every other job is unchanged.
C15_Removed ==
    /\ []((ret.op = "remove_job" /\ ret.dup # None)
             => (get_job(ret.id) = None /\ ~Listed(ret.id)))
    /\ [][ret'.op = "remove_job"
             => \A o \in IdSet \ {ret'.id} : get_job(o)' = get_job(o)]_vars
    /\ DispatchedOnlyIfPresent

JobOps == {"remove_job", "pause_job", "resume_job"}

\* C16: remove_job, pause_job and resume_job with an id the scheduler does
\* not have, or before a scheduler exists, raise nothing and leave the job
\* set, every job's next run time, the scheduler instance, its state and
\* is_running unchanged.
C16_AbsentIdNoOp ==
    [][(ret'.op \in JobOps /\ get_job(ret'.id) = None)
          => /\ ret'.kind = "return"
             /\ UNCHANGED <<store, pending_jobs, scheduler, state, is_running>>]_vars

\* C16 witness: pause_job with an id that is absent has returned on a running
\* manager that has a job.
C16_Witness ==
    /\ ret.op = "pause_job" /\ ret.dup = None /\ get_job(ret.id) = None
    /\ state = "RUNNING" /\ get_jobs # <<>>

\* C17 (as claimed): after pause_job(id) on an existing job, get_job and
\* get_jobs still return the job with its trigger, its next run time is None,
\* and it stays paused (and is not dispatched) until resume_job(id); a new
\* add_job(id), remove_job(id) or stop() ends the job itself.
C17_Paused ==
    /\ []((ret.op = "pause_job" /\ ret.dup # None)
             => /\ Paused(ret.id)
                /\ Listed(ret.id)
                /\ get_job(ret.id)[1].trigger = ret.dup[1].trigger)
    /\ [][\A id \in IdSet :
             (/\ Paused(id)
              /\ ret'.op # "stop"
              /\ ~(ret'.id = id /\ ret'.op \in {"resume_job", "remove_job", "add_job"}))
                 => Paused(id)' /\ RunningOf(id)' <= RunningOf(id)]_vars

C19_LazyScheduler ==
    /\ scheduler = None /\ ~is_running
    /\ [](scheduler = None
             => /\ get_jobs = <<>>
                /\ \A id \in IdSet : get_job(id) = None
                /\ ~is_running)
    /\ [][(scheduler = None /\ scheduler' # None)
             => ret'.op \in {"add_job", "start"}]_vars
    /\ [][(scheduler = None /\ ret'.op \in JobOps \cup {"stop"})
             => scheduler' = None /\ ret'.kind = "return"]_vars

\* C19 witness: stop() has returned on a manager that has no scheduler.
C19_Witness == scheduler = None /\ ret.op = "stop" /\ ret.kind = "return"

\* C20 (as claimed): before the scheduler is started and while it is running
\* (it has never been stopped), get_jobs() returns exactly the jobs added and
\* not removed, in the order of insertion.
C20_InsertionOrder == ~pool_shutdown => ListedIds = added


---------------------------------------------------------------------------
\* Claims about JobRegistry (checked under SpecRegistry) and about the dict
\* JobHandler.get_stats returns (SpecSnapshot).

\* C21: after register(h), get_handler(h.job_id) returns h, also when the id
\* had another handler (which is overwritten: the registry's dict gives an
\* id one handler), and get_handler of every other id returns what it
\* returned before.
C21_Register ==
    [][\A h \in Handlers :
          (ret'.op = "register" /\ ret'.arg = h)
              => /\ get_handler(objs[h].job_id)' = Some(h)
                 /\ \A id \in Ids \ {objs[h].job_id} :
                        get_handler(id)' = get_handler(id)]_vars

\* register(h) has just overwritten another handler of the same id, next to
\* an entry of another id.
C21_Witness ==
    /\ ret.op = "register"
    /\ ret.dup # None
    /\ ret.dup # Some(ret.arg)
    /\ get_handler(ret.id) = Some(ret.arg)
    /\ DOMAIN Registered # {ret.id}

\* C22: after unregister(id), get_handler(id) returns None and get_handler of
\* every other id returns what it returned before; unregister of an id that
\* is not registered returns normally and leaves the registry as it was.
C22_Unregister ==
    [][\A id \in Ids :
          (ret'.op = "unregister" /\ ret'.id = id)
              => /\ ret'.kind = "return"
                 /\ get_handler(id)' = None
                 /\ \A other \in Ids \ {id} : get_handler(other)' = get_handler(other)
                 /\ get_handler(id) = None => Registered' = Registered]_vars

\* unregister(id) has just removed a handler, and another entry is left.
C22_Witness ==
    /\ ret.op = "unregister"
    /\ ret.dup # None
    /\ get_handler(ret.id) = None
    /\ Registered # EmptyDict

HeldOps == {"held_set", "held_del"}
RegistryOps == {"register", "unregister"}

\* C23: get_all_handlers returns a dict with exactly the registered handlers
\* by id; writing or deleting keys in that dict leaves the registry as it
\* was, and register / unregister leave a dict returned earlier as it was.
C23_Copy ==
    /\ [][ret'.op = "get_all_handlers"
              => /\ dicts'[held'[1]] = Registered
                 /\ Registered' = Registered]_vars
    /\ [][ret'.op \in HeldOps => Registered' = Registered]_vars
    /\ [][(ret'.op \in RegistryOps /\ held # None)
              => dicts'[held[1]] = dicts[held[1]]]_vars

\* The client holds a dict it got earlier, the registry has been changed by
\* register / unregister since, and the two differ.
C23_Witness ==
    /\ held # None
    /\ ret.op \in RegistryOps
    /\ dicts[held[1]] # Registered
    /\ dicts[held[1]] # EmptyDict

\* C24: JobRegistry.get_stats returns a mapping whose keys are the registered
\* ids and whose value for an id is the get_stats() of the handler registered
\* under it: the id, the name and the counters that handler has now, also
\* those of executions made before it was registered.
C24_RegistryStats ==
    /\ DOMAIN JobRegistry_get_stats = {id \in Ids : get_handler(id) # None}
    /\ \A id \in DOMAIN JobRegistry_get_stats :
          LET o == objs[get_handler(id)[1]]
              st == JobRegistry_get_stats[id]
          IN  /\ st = JobHandler_get_stats(o)
              /\ st.job_id = id
              /\ st.execution_count = o.execution_count
              /\ st.error_count = o.error_count
              /\ st.last_error = o.last_error
              /\ (st.last_execution_time = None) = (o.last_execution_time = None)

\* A handler that had already executed has just been registered.
C24_Witness ==
    /\ ret.op = "register"
    /\ objs[ret.arg].execution_count > 0
    /\ JobRegistry_get_stats[ret.id].execution_count > 0

HandlerOps == {"execute", "reset_stats"}

\* C26: the dict JobHandler.get_stats returns holds the statistics the
\* handler has at the call; get_stats changes no statistic; execute and
\* reset_stats made later leave the dict as it was; writing into the dict
\* leaves the handler's statistics as they were.
C26_Snapshot ==
    /\ [][\A h \in Handlers :
             (ret'.op = "get_stats" /\ ret'.arg = h)
                 => /\ objs' = objs
                    /\ snap' = Some(JobHandler_get_stats(objs[h]))
                    /\ snap'[1].execution_count = objs[h].execution_count
                    /\ snap'[1].error_count = objs[h].error_count
                    /\ snap'[1].last_error = objs[h].last_error]_vars
    /\ [][ret'.op \in HandlerOps => snap' = snap]_vars
    /\ [][ret'.op = "snap_set" => objs' = objs]_vars

\* The client holds a dict from get_stats, the handler has executed since,
\* and the dict still shows the older count.
C26_Witness ==
    /\ snap # None
    /\ ret.op = "execute"
    /\ snap[1].execution_count >= 0
    /\ snap[1].execution_count < objs[ret.arg].execution_count


---------------------------------------------------------------------------
\* Registry and scheduler side by side (checked under SpecLife).

ManagerOps == {"add_job", "remove_job", "pause_job", "resume_job", "start", "stop"}

\* The main loop drops a job whose trigger has no fire time left.
DropsExhausted == ret'.op = "none" /\ DOMAIN store' # DOMAIN store

\* C25: register and unregister leave the scheduler's jobs (pending and
\* stored) as they were; add_job, remove_job, pause_job, resume_job, start
\* and stop, and the main loop dropping a job whose trigger is exhausted,
\* leave the registry's entries and every handler's statistics as they were.
C25_IndependentLifecycles ==
    /\ [][ret'.op \in RegistryOps
              => /\ UNCHANGED <<store, pending_jobs, state>>
                 /\ get_jobs' = get_jobs]_vars
    /\ [][ret'.op \in ManagerOps => UNCHANGED <<dicts, objs, hvars>>]_vars
    /\ [][DropsExhausted => UNCHANGED <<dicts, objs, hvars>>]_vars

\* The running scheduler has dispatched the one job it had and dropped it
\* (add_job, start, register and execute were the client's four calls, so
\* the job was not removed by a call), and the registry still has the
\* handler with its count.
C25_Witness ==
    /\ state = "RUNNING"
    /\ nAdds = 1 /\ nRuns = 1 /\ nOps = 4
    /\ store = EmptyStore
    /\ get_handler("b") = Some("h3")
    /\ objs["h3"].execution_count = 1


---------------------------------------------------------------------------
\* The main loop and missed firings (checked under SpecCoalesce).

\* A run that has already called the job's function once calls it again, for
\* a later run time of the same submission.
SecondCall ==
    \E r \in JobRuns :
        /\ r.pc = "done"
        /\ SkipMissed(r.todo, now) # <<>>
        /\ run_job(r)

\* The last pass of the main loop found several firings of job id due.
MissedFirings(id) == id \in Due /\ Len(RunTimes(store[id], now)) > 1

\* C27 (as claimed): a pass of the main loop that finds a job due with
\* several missed firings submits one run of it, and that run is one
\* execution of the job, with coalesce true and with coalesce false.
C27_OncePerWake ==
    /\ [][\A id \in IdSet :
             (LoopPass /\ MissedFirings(id))
                 => RunningOf(id)' <= RunningOf(id) + 1]_vars
    /\ [][~SecondCall]_vars

\* The submissions alone: one run per job and pass of the main loop.
C27_OneSubmission ==
    [][\A id \in IdSet :
          (LoopPass /\ MissedFirings(id))
              => RunningOf(id)' <= RunningOf(id) + 1]_vars

\* With coalesce true no run calls the function twice.
C27_CoalescingOnce ==
    [][(\A id \in DOMAIN store : store[id].coalesce) => ~SecondCall]_vars


---------------------------------------------------------------------------
\* The thread pool (checked under SpecPool).

\* C28: in every reachable state at most 10 runs, of all jobs together, are
\* being executed by the manager's default executor; further submitted runs
\* wait in the pool's queue.
C28_PoolBound == Busy <= MaxWorkers

\* Ten runs of two jobs are executing and a submitted run is waiting, although
\* its job has fewer than max_instances runs executing.
C28_Witness ==
    /\ Busy = MaxWorkers
    /\ \E r \in JobRuns : r.pc = "queued"
    /\ \E r \in JobRuns : r.pc = "func" /\ r.job = "b"
    /\ \E r \in JobRuns : r.pc = "func" /\ r.job = "u1"


---------------------------------------------------------------------------
\* Interval triggers (checked under SpecTrigger).

BuildOps == {"interval_job", "create_trigger"}
ProbeTotal ==
    IF probe.type = "interval"
    THEN TotalSeconds(probe.seconds, probe.minutes, probe.hours)
    ELSE -1

\* C29 (as claimed): building an interval trigger with seconds = minutes =
\* hours = 0 fails with InvalidConfig, and no trigger with a default interval
\* comes out of it.
C29_ZeroInterval ==
    (probe.op \in BuildOps /\ probe.type = "interval" /\ ProbeTotal = 0)
        => /\ probe.kind = "raise"
           /\ probe.exc = "InvalidConfig"

\* A trigger built with a positive total has that total as its interval.
C29_PositiveInterval ==
    (probe.op \in BuildOps /\ ProbeTotal > 0)
        => /\ probe.kind = "return"
           /\ probe.trigger.interval = ProbeTotal

\* C30 (as claimed): for a trigger built from non-negative seconds, minutes,
\* hours with a positive total, get_next_fire_time(None, t0) is t0, and
\* get_next_fire_time(t0, now) is t0 + total for every now.
C30_NextFire ==
    (probe.op = "get_next_fire_time" /\ ProbeTotal > 0)
        => /\ probe.prev = None => probe.next = Some(probe.at)
           /\ probe.prev # None => probe.next = Some(probe.prev[1] + ProbeTotal)

\* The second half alone: the fire time after a previous one.
C30_AfterPrevious ==
    (probe.op = "get_next_fire_time" /\ ProbeTotal > 0 /\ probe.prev # None)
        => probe.next = Some(probe.prev[1] + ProbeTotal)

\* What the first fire time is: the trigger's start date (the time it was
\* built plus the interval) or, later, the first point of its grid that is
\* not before now.
C30_FirstFire ==
    (probe.op = "get_next_fire_time" /\ ProbeTotal > 0 /\ probe.prev = None)
        => /\ probe.next # None
           /\ probe.next[1] >= probe.at
           /\ probe.next[1] >= probe.built + ProbeTotal
           /\ probe.next[1] < probe.at + ProbeTotal \/ probe.next[1] = probe.built + ProbeTotal
           /\ (probe.next[1] - probe.built) % ProbeTotal = 0

---------------------------------------------------------------------------
\* ConfigLoader.create_trigger (checked under SpecTrigger).

\* C31: create_trigger returns an interval trigger for type 'interval' and a
\* cron trigger for type 'cron'; for every other type it raises ValueError
\* (the error kind UnsupportedTriggerType) and has constructed no trigger.
C31_CreateTrigger ==
    probe.op = "create_trigger"
        => /\ probe.type = "interval"
                => probe.kind = "return" /\ probe.class = "IntervalTrigger"
           /\ probe.type = "cron"
                => probe.kind = "return" /\ probe.class = "CronTrigger"
           /\ probe.type \notin {"interval", "cron"}
                => /\ probe.kind = "raise"
                   /\ probe.exc = "ValueError"
                   /\ probe.class = "none"
                   /\ probe.made = 0

\* create_trigger('date', ...) has raised.
C31_Witness ==
    /\ probe.op = "create_trigger"
    /\ probe.type = "date"
    /\ probe.kind = "raise"

\* create_trigger('cron', ...) has returned a cron trigger.
C31_WitnessCron ==
    /\ probe.op = "create_trigger"
    /\ probe.type = "cron"
    /\ probe.class = "CronTrigger"

---------------------------------------------------------------------------
\* ConfigLoader.parse_jobs (checked under SpecConfig).

\* The 'jobs' list parse_jobs was called with, empty without the key.
InputJobs == IF "jobs" \in DOMAIN cfg.config THEN cfg.config["jobs"].val ELSE <<>>

\* C32: parse_jobs returns one entry per job of the 'jobs' list, in the same
\* order, disabled jobs included; name defaults to the id, enabled to true,
\* args to an empty list, kwargs and trigger_params to an empty mapping; a
\* config without 'jobs' gives an empty list.
C32_ParseJobs ==
    cfg.op = "parse_jobs"
        => /\ "jobs" \notin DOMAIN cfg.config => Len(cfg.parsed) = 0
           /\ Len(cfg.parsed) = Len(InputJobs)
           /\ \A i \in 1..Len(InputJobs) :
                LET job == InputJobs[i]
                    entry == cfg.parsed[i]
                IN  /\ "id" \in DOMAIN job => entry.id = job["id"]
                    /\ "name" \in DOMAIN job => entry.name = job["name"]
                    /\ "name" \notin DOMAIN job => entry.name = entry.id
                    /\ "enabled" \in DOMAIN job => entry.enabled = job["enabled"]
                    /\ "enabled" \notin DOMAIN job => entry.enabled = ConfBool(TRUE)
                    /\ "args" \notin DOMAIN job
                          => entry.args.type = "list" /\ Len(entry.args.val) = 0
                    /\ "kwargs" \notin DOMAIN job
                          => entry.kwargs.type = "dict" /\ DOMAIN entry.kwargs.val = {}
                    /\ ("trigger" \notin DOMAIN job
                            \/ "params" \notin DOMAIN job["trigger"].val)
                          => /\ entry.trigger_params.type = "dict"
                             /\ DOMAIN entry.trigger_params.val = {}

\* parse_jobs has returned two entries for [job2 with its id alone, job1
\* disabled].
C32_Witness ==
    /\ cfg.op = "parse_jobs"
    /\ Len(cfg.parsed) = 2
    /\ cfg.parsed[1].id = ConfStr("job2")
    /\ cfg.parsed[1].name = ConfStr("job2")
    /\ cfg.parsed[2].id = ConfStr("job1")
    /\ cfg.parsed[2].enabled = ConfBool(FALSE)

---------------------------------------------------------------------------
\* The decorators (checked under SpecDeco).

\* The jobs in a scheduler's job list.
JobsOn(sched) ==
    IF sched = "manager" THEN get_jobs
    ELSE [i \in 1..Len(pending2) |-> pending2[i].job]

\* C33: a call of a decorated function returns what the original function
\* returns for the same argument, and adds, removes and runs no job on
\* either scheduler.
C33_Callable ==
    [][(deco'.op = "wrapper" /\ nOps' # nOps)
         => /\ deco'.val = Original(deco'.func, deco'.arg)
            /\ \A sched \in Schedulers : JobsOn(sched)' = JobsOn(sched)
            /\ UNCHANGED <<scheduler, state, pending_jobs, store, instances, calls,
                           nRuns, global_scheduler>>]_vars

\* A function registered on "manager" has been called with argument 1.
C33_Witness ==
    /\ deco.op = "wrapper"
    /\ deco.arg = 1
    /\ deco.val = <<deco.func, 1>>
    /\ "manager" \in decorated[deco.func]
    /\ Len(get_jobs) = 1

C39_NotRetroactive ==
    /\ \A func \in Funcs :
          decorated[func] = {"None"}
            => \A sched \in Schedulers :
                  \A i \in 1..Len(JobsOn(sched)) : JobsOn(sched)[i].func # func
    /\ (deco.op \in DecoOps /\ deco.global = "None")
          => deco.kind = "return" /\ deco.exc = "" /\ deco.target = "None"

\* f was decorated without a global scheduler; "manager" was then set and g
\* decorated: only g is in a job list.
C39_Witness ==
    /\ decorated["f"] = {"None"}
    /\ global_scheduler = "manager"
    /\ decorated["g"] = {"manager"}
    /\ Len(JobsOn("manager")) = 1
    /\ JobsOn("manager")[1].func = "g"

---------------------------------------------------------------------------
\* JobHandler's counters under concurrent calls (checked under SpecHandler).

\* C35 (as claimed): in every reachable state, whatever the interleaving of
\* execute() and reset_stats() calls, error_count <= execution_count.
C35_ErrorBound == error_count <= execution_count

\* The same bound in the states where no call is in progress.
C35_AtRest == (calls = EmptyBag) => error_count <= execution_count

---------------------------------------------------------------------------
\* Snapshots of a JobHandler that other threads are using (checked under
\* SpecStats).

\* C36 (as claimed): every snapshot get_stats returns, also one taken while
\* an execute() is in progress on another thread, has last_execution_time
\* not None if execution_count >= 1 and last_error not None if
\* error_count >= 1.
C36_ConsistentSnapshot ==
    snap # None
        => /\ snap[1].execution_count >= 1 => snap[1].last_execution_time # None
           /\ snap[1].error_count >= 1 => snap[1].last_error # None

\* The second half alone.
C36_ErrorHalf ==
    snap # None => (snap[1].error_count >= 1 => snap[1].last_error # None)

\* Snapshots taken while no call is in progress and no reset_stats has been
\* called are consistent.
C36_AtRest ==
    (snap # None /\ calls = EmptyBag /\ nResets = 0)
        => /\ snap[1].execution_count >= 1 => snap[1].last_execution_time # None
           /\ snap[1].error_count >= 1 => snap[1].last_error # None

---------------------------------------------------------------------------
\* Concurrent calls on one SchedulerManager (checked under SpecRace).

\* The calls that have returned or raised.
Finished == {c \in Threads \X (1..RaceMaxCalls) : c[2] <= Len(threads[c[1]].log)}
LogOf(c) == threads[c[1]].log[c[2]]

\* C37 (as claimed): with threads calling add_job and start concurrently on
\* a manager without a scheduler, one scheduler at most is ever created, and
\* every job whose add_job has returned is in get_jobs().
C37_NoLostJob ==
    /\ Len(heap) <= 1
    /\ \A c \in Finished :
          (LogOf(c).op = "add_job" /\ LogOf(c).kind = "return")
            => LogOf(c).id \in RaceGetJobs

\* The second half alone: no job is lost.
C37_Present ==
    \A c \in Finished :
        (LogOf(c).op = "add_job" /\ LogOf(c).kind = "return")
          => LogOf(c).id \in RaceGetJobs

\* Both threads are outside the manager after one start() each.
BothStarted ==
    \A t \in Threads :
        /\ threads[t].pc = "idle"
        /\ Len(threads[t].log) = 1
        /\ threads[t].log[1].op = "start"

\* The schedulers that have been started, and how often.
RECURSIVE StartsFrom(_)
StartsFrom(i) == IF i > Len(heap) THEN 0 ELSE heap[i].started + StartsFrom(i + 1)

\* C38 (as claimed): after two concurrent start() calls on a background
\* manager, a scheduler has been started exactly once, neither call has
\* raised, and is_running is True.
C38_StartOnce ==
    BothStarted
        => /\ StartsFrom(1) = 1
           /\ \A t \in Threads : threads[t].log[1].kind = "return"
           /\ is_running

\* The part that holds: is_running is True after the two calls.
C38_Running == BothStarted => is_running

\* The part about exceptions alone.
C38_NoRaise ==
    BothStarted => \A t \in Threads : threads[t].log[1].kind = "return"

\* The part about the number of starts alone.
C38_OneStart == BothStarted => StartsFrom(1) = 1

====
